---- MODULE Spec2Model ----
(***************************************************************************)
(* Weather_Microservice: the ingestion/backfill engine                     *)
(* (app/services/ingestion_service.py), the two repositories it writes     *)
(* through, and the store they write to.                                   *)
(*                                                                         *)
(* Specifications:                                                         *)
(*   SpecChunks   add_months / iter_chunks_max_6_months on drawn inputs    *)
(***************************************************************************)
EXTENDS Integers, Sequences, FiniteSets, TLC

\* Python's None; every optional value is a record, so that None compares with it
None == [none |-> TRUE]

(***************************************************************************)
(* datetime.date: a (year, month, day) triple with the proleptic           *)
(* Gregorian calendar; timedelta(days=1) arithmetic.                       *)
(***************************************************************************)
date(y, m, d) == [year |-> y, month |-> m, day |-> d]

IsLeap(y) == (y % 4 = 0) /\ ((y % 100 # 0) \/ (y % 400 = 0))

DaysInMonth(y, m) ==
    IF m = 2 THEN (IF IsLeap(y) THEN 29 ELSE 28)
    ELSE IF m \in {4, 6, 9, 11} THEN 30 ELSE 31

IsValidDate(d) ==
    /\ d.month \in 1..12
    /\ d.day >= 1
    /\ d.day <= DaysInMonth(d.year, d.month)

DateKey(d) == d.year * 10000 + d.month * 100 + d.day
DateLT(a, b) == DateKey(a) < DateKey(b)
DateLE(a, b) == DateKey(a) <= DateKey(b)

\* d + timedelta(days=1)
NextDay(d) ==
    IF d.day < DaysInMonth(d.year, d.month) THEN date(d.year, d.month, d.day + 1)
    ELSE IF d.month < 12 THEN date(d.year, d.month + 1, 1)
    ELSE date(d.year + 1, 1, 1)

\* d - timedelta(days=1)
PrevDay(d) ==
    IF d.day > 1 THEN date(d.year, d.month, d.day - 1)
    ELSE IF d.month > 1 THEN date(d.year, d.month - 1, DaysInMonth(d.year, d.month - 1))
    ELSE date(d.year - 1, 12, 31)

\* date.toordinal(): day 1 is 0001-01-01
RECURSIVE DaysBeforeMonth(_, _)
DaysBeforeMonth(y, m) ==
    IF m = 1 THEN 0 ELSE DaysBeforeMonth(y, m - 1) + DaysInMonth(y, m - 1)

ToOrdinal(d) ==
    LET y1 == d.year - 1
    IN  y1 * 365 + (y1 \div 4) - (y1 \div 100) + (y1 \div 400)
        + DaysBeforeMonth(d.year, d.month) + d.day

Min(a, b) == IF a <= b THEN a ELSE b

(***************************************************************************)
(* IngestionService.add_months and iter_chunks_max_6_months                *)
(***************************************************************************)
ChunkMonths == 6

add_months_unclamped(d, months) ==
    date(d.year + ((d.month - 1 + months) \div 12), ((d.month - 1 + months) % 12) + 1, d.day)

add_months(d, months) ==
    LET y == d.year + ((d.month - 1 + months) \div 12)
        m == ((d.month - 1 + months) % 12) + 1
        first_next_month ==
            IF m < 12 THEN date(y + (m \div 12), (m % 12) + 1, 1)
            ELSE date(y + 1, 1, 1)
        last_day == PrevDay(first_next_month)
        day == Min(d.day, last_day.day)
    IN  date(y, m, day)

\* the chunk the generator yields when its cursor is cur
chunk_end_of(cur, end_d) ==
    LET chunk_end == PrevDay(add_months(cur, ChunkMonths))
    IN  IF DateLT(end_d, chunk_end) THEN end_d ELSE chunk_end

\* the cursor after the chunk ending at chunk_end was yielded
chunk_next_cur_overlap(chunk_end) == chunk_end

chunk_next_cur(chunk_end) == NextDay(chunk_end)

\* `while cur <= end_d`
chunk_has_next(cur, end_d) == DateLE(cur, end_d)

(***************************************************************************)
(* Bounds of the drawn inputs of SpecChunks                                *)
(***************************************************************************)
ChunkFirstStart == date(2023, 8, 1)
ChunkStartDays == 520
MaxSpanDays == 370

\* every valid date of the years the drawn inputs can fall in
CalendarDates ==
    {dt \in {date(y, m, d) : y \in 2023..2026, m \in 1..12, d \in 1..31} : IsValidDate(dt)}

ChunkStarts ==
    {dt \in CalendarDates :
        /\ ToOrdinal(dt) >= ToOrdinal(ChunkFirstStart)
        /\ ToOrdinal(dt) < ToOrdinal(ChunkFirstStart) + ChunkStartDays}

SpanOffsets ==
    {k \in 0..MaxSpanDays : k <= 1 \/ (k >= 179 /\ k <= 185) \/ k >= MaxSpanDays - 3}

(***************************************************************************)
(* Provider A (AEMET) daily rows.  A row is the dict of one day: a key     *)
(* that is missing reads as None (dict.get).  Strings are sequences of     *)
(* one-character strings; a well-formed "YYYY-MM-DD" text is the triple    *)
(* of its three numbers.                                                   *)
(***************************************************************************)
Str(cs) == [str |-> cs]
IsStr(v) == DOMAIN v = {"str"}

IsoText(y, m, d) == [iso |-> <<y, m, d>>]
BadDateText == Str(<<"x">>)

Row(fecha, tmin, tmax, prec, tmed) ==
    [fecha |-> fecha, tmin |-> tmin, tmax |-> tmax, prec |-> prec, tmed |-> tmed]

IsoOf(d) == IsoText(d.year, d.month, d.day)

\* the measurement texts a drawn row carries
Txt5c0 == Str(<<"5", ",", "0">>)
Txt1c2 == Str(<<"1", ",", "2">>)
TxtAbc == Str(<<"a", "b", "c">>)

(***************************************************************************)
(* AemetClient.parse_numeric: float(v.replace(",", ".")), None when v is   *)
(* None or when anything raises.  Floats are exact fractions in lowest     *)
(* terms.  float() is modelled for the texts [+-]digits[.digits] and       *)
(* [+-].digits; every other text of the model raises ValueError.           *)
(***************************************************************************)
Float(n, d) == [num |-> n, den |-> d]

RECURSIVE Gcd(_, _)
Gcd(a, b) == IF b = 0 THEN a ELSE Gcd(b, a % b)

Abs(x) == IF x < 0 THEN -x ELSE x

Frac(n, d) == LET g == Gcd(Abs(n), d) IN Float(n \div g, d \div g)

DigitChars == {"0", "1", "2", "3", "4", "5", "6", "7", "8", "9"}

DigitVal(c) ==
    CASE c = "0" -> 0 [] c = "1" -> 1 [] c = "2" -> 2 [] c = "3" -> 3 [] c = "4" -> 4
      [] c = "5" -> 5 [] c = "6" -> 6 [] c = "7" -> 7 [] c = "8" -> 8 [] c = "9" -> 9

\* v.replace(",", ".")
ReplaceComma(cs) == [i \in DOMAIN cs |-> IF cs[i] = "," THEN "." ELSE cs[i]]

RECURSIVE DigitsValue(_)
DigitsValue(cs) ==
    IF cs = << >> THEN 0
    ELSE DigitsValue(SubSeq(cs, 1, Len(cs) - 1)) * 10 + DigitVal(cs[Len(cs)])

RECURSIVE Pow10(_)
Pow10(k) == IF k = 0 THEN 1 ELSE 10 * Pow10(k - 1)

ValueError == [error |-> "ValueError"]

\* float(text): the fraction, or ValueError
float_of_text(cs) ==
    LET signed == cs # << >> /\ cs[1] \in {"+", "-"}
        body == IF signed THEN SubSeq(cs, 2, Len(cs)) ELSE cs
        dots == {i \in DOMAIN body : body[i] = "."}
        ok == /\ Cardinality(dots) <= 1
              /\ \A i \in DOMAIN body : body[i] \in DigitChars \cup {"."}
              /\ \E i \in DOMAIN body : body[i] \in DigitChars
        dot == IF dots = {} THEN Len(body) + 1 ELSE CHOOSE i \in dots : TRUE
        ip == SubSeq(body, 1, dot - 1)
        fp == SubSeq(body, dot + 1, Len(body))
        mag == DigitsValue(ip \o fp)
        sgn == IF signed /\ cs[1] = "-" THEN -1 ELSE 1
    IN  IF ok THEN Frac(sgn * mag, Pow10(Len(fp))) ELSE ValueError

\* parse_numeric without its `except Exception`
parse_numeric_unguarded(v) ==
    IF v = None THEN None
    ELSE IF ~IsStr(v) THEN [error |-> "AttributeError"]
    ELSE float_of_text(ReplaceComma(v.str))

parse_numeric(v) ==
    IF v = None THEN None
    ELSE IF ~IsStr(v) THEN None      \* v.replace raises AttributeError
    ELSE LET f == float_of_text(ReplaceComma(v.str))
         IN  IF f = ValueError THEN None ELSE f

\* date.fromisoformat(fecha): the date, or ValueError
fromisoformat(fecha) ==
    IF DOMAIN fecha = {"iso"} /\ IsValidDate(date(fecha.iso[1], fecha.iso[2], fecha.iso[3]))
    THEN date(fecha.iso[1], fecha.iso[2], fecha.iso[3])
    ELSE ValueError

\* `if not fecha`
Falsy(v) == v = None \/ v = Str(<< >>)

(***************************************************************************)
(* What Provider A holds for a station: the rows of its days, each filed   *)
(* under a day; a range call brings back, in order, the rows filed under   *)
(* the days of the range.  The `fecha` a row carries is the provider's     *)
(* business: it can be missing, unreadable, or name another day.           *)
(***************************************************************************)
BACKFILL_START == date(2024, 1, 1)
Day2 == date(2024, 1, 2)
Day3 == date(2024, 1, 3)
DayJul1 == date(2024, 7, 1)

Filed(day, row) == [day |-> day, row |-> row]

RowA(d) == Row(IsoOf(d), Txt5c0, Txt5c0, Txt1c2, Txt5c0)
RowB(d) == Row(IsoOf(d), None, TxtAbc, None, Txt1c2)

\* two good days
DataTwoDays == << Filed(BACKFILL_START, RowA(BACKFILL_START)), Filed(Day2, RowB(Day2)) >>
\* the same day twice, then a row without a date
DataDuplicateDay ==
    << Filed(BACKFILL_START, RowA(BACKFILL_START)), Filed(BACKFILL_START, RowB(BACKFILL_START)),
       Filed(Day2, Row(None, Txt5c0, Txt5c0, Txt5c0, Txt5c0)) >>
\* a good day, a row whose date does not parse, a good day
DataBadDate ==
    << Filed(BACKFILL_START, RowA(BACKFILL_START)),
       Filed(BACKFILL_START, Row(BadDateText, Txt5c0, Txt5c0, Txt5c0, Txt5c0)),
       Filed(Day2, RowA(Day2)) >>
\* a row filed under the first day that names the third day
DataOtherDay == << Filed(BACKFILL_START, RowA(Day3)) >>
\* a day in the first six months and a day after them
DataTwoChunks == << Filed(Day2, RowA(Day2)), Filed(DayJul1, RowB(DayJul1)) >>

AemetDatasets == {DataTwoDays, DataDuplicateDay, DataBadDate, DataOtherDay, DataTwoChunks}

\* the rows of data filed under the days of [chunk_start, chunk_end]
RECURSIVE RowsInRange(_, _, _)
RowsInRange(data, chunk_start, chunk_end) ==
    IF data = << >> THEN << >>
    ELSE LET h == data[1]
             t == RowsInRange(Tail(data), chunk_start, chunk_end)
         IN  IF DateLE(chunk_start, h.day) /\ DateLE(h.day, chunk_end)
             THEN <<h.row>> \o t ELSE t

(***************************************************************************)
(* What one remote call can do: answer, or raise.                          *)
(*   http429     httpx.HTTPStatusError with status 429                     *)
(*   http500     httpx.HTTPStatusError with another status                 *)
(*   neterr      any exception that is not an HTTPStatusError              *)
(***************************************************************************)
Ok(v) == [kind |-> "ok", value |-> v]
Raise(e) == [kind |-> "raise", exc |-> e]

Http429 == "HTTPStatusError(429)"
Http500 == "HTTPStatusError(500)"
NetErr == "ConnectError"
RateLimitExceeded == "RuntimeError(AEMET rate limit exceeded (max retries reached))"

FetchFailures == {Http429, Http500, NetErr}
\* the failures of a station-list call the runs are given
ListFailures == {Http429, NetErr}

\* str(e), the text sync files under failures["aemet"] / failures["meteocat"]
Msg(e) == [text |-> e]

AemetKeyMissing == "RuntimeError(AEMET_API_KEY is not configured)"
MeteocatKeyMissing == "RuntimeError(METEOCAT_API_KEY is not configured)"

(***************************************************************************)
(* The station lists of the two providers                                  *)
(***************************************************************************)
AemetMeta(idema, indicativo, id, nombre, name) ==
    [idema |-> idema, indicativo |-> indicativo, id |-> id, nombre |-> nombre, name |-> name]

MeteocatMeta(codi, code, id, nom, name) ==
    [codi |-> codi, code |-> code, id |-> id, nom |-> nom, name |-> name]

\* Python's `a or b`
Or(a, b) == IF Falsy(a) THEN b ELSE a

\* `sid = meta.get("idema") or meta.get("indicativo") or meta.get("id")`
aemet_sid(meta) == Or(Or(meta.idema, meta.indicativo), meta.id)
\* `name = meta.get("nombre") or meta.get("name")`
aemet_name(meta) == Or(meta.nombre, meta.name)
\* `code = meta.get("codi") or meta.get("code") or meta.get("id")`
meteocat_code(meta) == Or(Or(meta.codi, meta.code), meta.id)
\* `name = meta.get("nom") or meta.get("name")`
meteocat_name(meta) == Or(meta.nom, meta.name)

SidA1 == Str(<<"A", "1">>)
SidA2 == Str(<<"A", "2">>)
CodeM1 == Str(<<"M", "1">>)
CodeM2 == Str(<<"M", "2">>)

MetaA1 == AemetMeta(SidA1, None, None, Str(<<"a", "1">>), None)
MetaA2 == AemetMeta(Str(<< >>), SidA2, None, None, Str(<<"a", "2">>))
MetaANoId == AemetMeta(None, Str(<< >>), None, Str(<<"a", "0">>), None)
MetaM1 == MeteocatMeta(CodeM1, None, None, Str(<<"m", "1">>), None)
MetaM2 == MeteocatMeta(None, None, CodeM2, None, None)
MetaMNoId == MeteocatMeta(None, None, None, Str(<<"m", "0">>), None)

\* What the providers are given to hold.  With one provider configured, its
\* lists and data vary; with both configured, they are one case: two
\* stations of Provider A (one with a day twice), one of Provider B.
AemetStationLists(both) ==
    IF both THEN {<<MetaANoId, MetaA1, MetaA2>>}
    ELSE {<<MetaA1>>, <<MetaANoId, MetaA1, MetaA2>>}

MeteocatStationLists(both) ==
    IF both THEN {<<MetaM1>>}
    ELSE {<<MetaM1>>, <<MetaMNoId, MetaM1, MetaM2>>}

\* the datasets Provider A can hold for a station
AemetDatasetsOf(both, sid) ==
    IF sid # SidA1 THEN {DataTwoDays}
    ELSE IF both THEN {DataDuplicateDay}
    ELSE AemetDatasets

(***************************************************************************)
(* Provider B's payload for a station and a day, and                       *)
(* MeteocatClient.parse_daily_payload                                      *)
(***************************************************************************)
List(xs) == [list |-> xs]
IsList(v) == DOMAIN v = {"list"}
\* a JSON object with (or without) a "variables" member and other members
Obj(variables, other) == [variables |-> variables, other |-> other]
IsObj(v) == DOMAIN v = {"variables", "other"}
Var(codi, lectures) == [codi |-> codi, lectures |-> lectures]
Lec(valor) == [valor |-> valor]
IsFloat(v) == DOMAIN v = {"num", "den"}

\* `not x` for a payload, a list or None
Empty(v) ==
    \/ v = None
    \/ (IsList(v) /\ v.list = << >>)
    \/ (IsObj(v) /\ v.variables = None /\ v.other = None)

\* float(v) of a JSON number or string
float_of(v) == IF IsFloat(v) THEN v ELSE IF IsStr(v) THEN float_of_text(v.str) ELSE ValueError

FAdd(a, b) == Frac(a.num * b.den + b.num * a.den, a.den * b.den)
FLess(a, b) == a.num * b.den < b.num * a.den
FMax(a, b) == IF FLess(a, b) THEN b ELSE a
FMin(a, b) == IF FLess(b, a) THEN b ELSE a

\* the `valor`s that are not None, in order, of the lectures of one variable
RECURSIVE LectureValues(_)
LectureValues(lectures) ==
    IF lectures = << >> THEN << >>
    ELSE LET v == lectures[1].valor
             t == LectureValues(Tail(lectures))
         IN  IF v = None THEN t ELSE <<float_of(v)>> \o t

\* `lectures = var.get("lectures") or []`
lectures_of(var) == IF Empty(var.lectures) THEN << >> ELSE var.lectures.list

MeteocatCodes == {32, 35, 40, 42}

\* float(valor) of every lecture the loop reads for the variables of code c
RECURSIVE ValuesOfCode(_, _)
ValuesOfCode(variables, c) ==
    IF variables = << >> THEN << >>
    ELSE LET t == ValuesOfCode(Tail(variables), c)
         IN  IF variables[1].codi = c
             THEN LectureValues(lectures_of(variables[1])) \o t ELSE t

RECURSIVE FSum(_)
FSum(xs) == IF xs = << >> THEN Float(0, 1) ELSE FAdd(xs[1], FSum(Tail(xs)))

RECURSIVE FMaxOf(_)
FMaxOf(xs) == IF Len(xs) = 1 THEN xs[1] ELSE FMax(xs[1], FMaxOf(Tail(xs)))

RECURSIVE FMinOf(_)
FMinOf(xs) == IF Len(xs) = 1 THEN xs[1] ELSE FMin(xs[1], FMinOf(Tail(xs)))

\* a variant that gives the total
mean_of_total(xs) ==
    IF xs = << >> THEN None ELSE FSum(xs)

\* total / count
mean_of(xs) ==
    IF xs = << >> THEN None
    ELSE LET t == FSum(xs) IN Frac(t.num, t.den * Len(xs))

NoAggregates == [tmin |-> None, tmax |-> None, precip |-> None, tavg |-> None]

\* (tmin, tmax, precip, tavg), or the ValueError float() raises
parse_daily_payload(raw) ==
    IF Empty(raw) THEN Ok(NoAggregates)
    ELSE LET root == IF IsList(raw) THEN raw.list[1] ELSE raw
             variables == IF IsObj(root) THEN root.variables ELSE None
         IN  IF Empty(variables) THEN Ok(NoAggregates)
             ELSE LET vs == variables.list
                      read == [c \in MeteocatCodes |-> ValuesOfCode(vs, c)]
                      bad == \E c \in MeteocatCodes : \E i \in DOMAIN read[c] :
                                read[c][i] = ValueError
                  IN  IF bad THEN Raise("ValueError")
                      ELSE Ok([tmin |-> IF read[42] = << >> THEN None ELSE FMinOf(read[42]),
                               tmax |-> IF read[40] = << >> THEN None ELSE FMaxOf(read[40]),
                               precip |-> mean_of(read[35]),
                               tavg |-> mean_of(read[32])])

\* the four variables, two readings each
PayloadFull ==
    Obj(List(<< Var(32, List(<<Lec(Float(10, 1)), Lec(Float(12, 1))>>)),
                Var(35, List(<<Lec(Float(0, 1)), Lec(Float(1, 1))>>)),
                Var(40, List(<<Lec(Float(15, 1)), Lec(Float(14, 1))>>)),
                Var(42, List(<<Lec(Float(5, 1)), Lec(Float(6, 1))>>)) >>), None)
\* wrapped in a list; a reading without value, a variable without readings
PayloadPartial ==
    List(<< Obj(List(<< Var(32, List(<<Lec(None), Lec(Str(<<"1", "1", ".", "5">>))>>)),
                        Var(40, None) >>), None) >>)
\* a reading float() cannot take
PayloadUnreadable == Obj(List(<< Var(42, List(<<Lec(TxtAbc)>>)) >>), None)
\* an object without "variables" (the payload of tests/test_ingestion_daily.py)
PayloadOpaque == Obj(None, Str(<<"d", "u", "m", "m", "y">>))

\* What Provider B holds for a station: the payload of the first day, of
\* the second day and of every later day.
MeteocatData(first, second, later) == [first |-> first, second |-> second, later |-> later]

\* the payload of day d in data
PayloadOn(data, d) ==
    IF d = BACKFILL_START THEN data.first
    ELSE IF d = Day2 THEN data.second
    ELSE data.later

MeteocatDatasets ==
    {MeteocatData(PayloadFull, PayloadFull, PayloadFull),
     MeteocatData(PayloadPartial, PayloadOpaque, PayloadFull),
     MeteocatData(PayloadFull, PayloadUnreadable, PayloadFull),
     MeteocatData(PayloadUnreadable, PayloadFull, PayloadFull)}

\* the datasets Provider B can hold for a station
MeteocatDatasetsOf(both, code) ==
    IF code # CodeM1 THEN {MeteocatData(PayloadOpaque, PayloadOpaque, PayloadOpaque)}
    ELSE IF both THEN {MeteocatData(PayloadFull, PayloadFull, PayloadFull)}
    ELSE MeteocatDatasets

Sessions == {1, 2}

(***************************************************************************)
(* IngestionService.fetch_with_backoff                                     *)
(***************************************************************************)
DefaultMaxRetries == 3
DefaultSleepSeconds == 60

BoIdle == [pc |-> "idle"]

\* entering the function: `for attempt in range(1, max_retries + 1)`; an
\* empty range falls through to the implicit `return None`
BoEnter(fn, max_retries, sleep_seconds) ==
    [pc |-> IF max_retries >= 1 THEN "call" ELSE "returned",
     fn |-> fn,
     max_retries |-> max_retries,
     sleep_seconds |-> sleep_seconds,
     attempt |-> 1,
     log |-> << >>,        \* what each call of fn did, in order
     sleeps |-> << >>,     \* the duration of each asyncio.sleep, in order
     result |-> Ok(None)]

\* `if attempt >= max_retries: raise RuntimeError(...)`
bo_exhausted_late(attempt, max_retries) == attempt > max_retries

bo_exhausted(attempt, max_retries) == attempt >= max_retries

\* a variant that treats every error as a rate-limit signal
BoAfterCall_retry_any(b, o) ==
    LET b1 == [b EXCEPT !.log = Append(@, o)]
    IN  IF o.kind = "ok" THEN [b1 EXCEPT !.pc = "returned", !.result = o]
        ELSE IF bo_exhausted(b.attempt, b.max_retries)
             THEN [b1 EXCEPT !.pc = "raised", !.result = Raise(RateLimitExceeded)]
             ELSE [b1 EXCEPT !.pc = "sleep"]

\* the state after `await fn()` did o at the current attempt
BoAfterCall(b, o) ==
    LET b1 == [b EXCEPT !.log = Append(@, o)]
    IN  IF o.kind = "ok" THEN [b1 EXCEPT !.pc = "returned", !.result = o]
        ELSE IF o.exc = Http429
             THEN IF bo_exhausted(b.attempt, b.max_retries)
                  THEN [b1 EXCEPT !.pc = "raised", !.result = Raise(RateLimitExceeded)]
                  ELSE [b1 EXCEPT !.pc = "sleep"]
             ELSE [b1 EXCEPT !.pc = "raised", !.result = o]

\* the state after `await asyncio.sleep(sleep_seconds)`: next iteration of
\* the for loop, or the end of the range
BoAfterSleep(b) ==
    IF b.attempt + 1 <= b.max_retries
    THEN [b EXCEPT !.sleeps = Append(@, b.sleep_seconds),
                   !.attempt = @ + 1, !.pc = "call"]
    ELSE [b EXCEPT !.sleeps = Append(@, b.sleep_seconds),
                   !.pc = "returned", !.result = Ok(None)]

(***************************************************************************)
(* The store: the two tables of app/models, the sessions of app/core/db.py *)
(* (one per request, closed when the request ends) and their transactions. *)
(* A session sees the committed rows and its own flushed, uncommitted ones *)
(* (PostgreSQL, READ COMMITTED, the engine of the default database_url).   *)
(***************************************************************************)
\* IngestionService._ts_for_day: 00:00:00 UTC of the day
ts_for_day(d) ==
    [year |-> d.year, month |-> d.month, day |-> d.day,
     hour |-> 0, minute |-> 0, second |-> 0, tz |-> "UTC"]

\* latest_ts.astimezone(timezone.utc).date()
ts_utc_date(ts) == date(ts.year, ts.month, ts.day)

\* a <= b for two instants
TsLE(a, b) ==
    \/ DateLT(ts_utc_date(a), ts_utc_date(b))
    \/ /\ ts_utc_date(a) = ts_utc_date(b)
       /\ (a.hour * 60 + a.minute) * 60 + a.second <= (b.hour * 60 + b.minute) * 60 + b.second

StationRow(id, source, source_station_id, name) ==
    [id |-> id, source |-> source, source_station_id |-> source_station_id, name |-> name]

ObsRow(id, station_id, ts, m) ==
    [id |-> id, station_id |-> station_id, ts |-> ts,
     tmin |-> m.tmin, tmax |-> m.tmax, tavg |-> m.tavg, precip |-> m.precip, raw |-> m.raw]

Measures(tmin, tmax, tavg, precip, raw) ==
    [tmin |-> tmin, tmax |-> tmax, tavg |-> tavg, precip |-> precip, raw |-> raw]

MeasuresOf(r) == Measures(r.tmin, r.tmax, r.tavg, r.precip, r.raw)

\* UniqueConstraint("source", "source_station_id", name="uq_station_source_id"):
\* r can be added to rows
uq_station_source_id_dropped(rows, r) == TRUE

uq_station_source_id(rows, r) ==
    \A x \in rows : ~(x.source = r.source /\ x.source_station_id = r.source_station_id)

\* UniqueConstraint("station_id", "ts", name="uq_obs_station_ts")
uq_obs_station_ts_dropped(rows, r) == TRUE

uq_obs_station_ts(rows, r) ==
    \A x \in rows : ~(x.station_id = r.station_id /\ x.ts = r.ts)

\* ForeignKey("stations.id")
fk_obs_station(stations, r) == \E x \in stations : x.id = r.station_id

IntegrityError == "IntegrityError"
PendingRollbackError == "PendingRollbackError"
MultipleResultsFound == "MultipleResultsFound"
DeadlockDetected == "OperationalError(deadlock detected)"

TxClean == [failed |-> FALSE, new_stations |-> {}, new_obs |-> {}, upd_obs |-> {}]
TxFailed == [failed |-> TRUE, new_stations |-> {}, new_obs |-> {}, upd_obs |-> {}]

NoCall == [op |-> "none", stage |-> "done"]
NoRet == [kind |-> "none"]

\* ids the sequences of the two tables may hand out
MaxStationSeq == 2
MaxObsSeq == 2

MaxRetriesBound == 4

\* runs of sync that begin
MaxRuns == 2
\* how many days past BACKFILL_START the clock goes
MaxDaysAfterEpoch == 2
SleepChoices == {1, DefaultSleepSeconds}

VARIABLES
    ck_start,     \* start_d handed to iter_chunks_max_6_months
    ck_end,       \* end_d handed to iter_chunks_max_6_months
    ck_cur,       \* the generator's cursor `cur`
    ck_out,       \* the chunks yielded so far, in order
    ck_pc,        \* "run" while the generator can be resumed, "done" once exhausted
    bo,           \* per session: the fetch_with_backoff invocation in progress
    db_stations,  \* committed rows of table stations
    db_obs,       \* committed rows of table weather_observations
    seq,          \* next value of the id sequence of each table
    tx,           \* per session: its open transaction (flushed, uncommitted work)
    call,         \* per session: the repository call in progress
    ret,          \* per session: what the last repository call returned or raised
    run,          \* per session: the request handler that owns the session
    world,        \* the providers: the API keys of the settings, and what each
                  \* provider has been seen to hold (it holds the same ever after)
    today,        \* the UTC date of the clock
    last          \* the runs so far: how many began, and how the latest one ended

chunkVars == <<ck_start, ck_end, ck_cur, ck_out, ck_pc>>
dbVars == <<db_stations, db_obs, seq, tx>>
repoVars == <<call, ret>>

envVars == <<world, today, last>>

vars == <<ck_start, ck_end, ck_cur, ck_out, ck_pc, bo,
          db_stations, db_obs, seq, tx, call, ret, run, world, today, last>>

\* no request is being served
RunOff == [pc |-> "off"]
\* a handler that calls the repositories directly and drops what they return
RunClient == [pc |-> "client"]

\* the iter_chunks harness is not running
ChunkOff ==
    /\ ck_start = None /\ ck_end = None /\ ck_cur = None
    /\ ck_out = << >> /\ ck_pc = "off"

BackoffOff == bo = [s \in Sessions |-> BoIdle]

Known(v) == [known |-> v]

\* the providers before any call: nothing has been seen of what they hold
WorldInit(aemet_api_key, meteocat_api_key) ==
    [aemet_api_key |-> aemet_api_key, meteocat_api_key |-> meteocat_api_key,
     aemet_stations |-> None, meteocat_stations |-> None,
     aemet_data |-> {}, meteocat_data |-> {}]

NoRunYet == [runs |-> 0, date |-> None, answered |-> FALSE, clean |-> FALSE]

EnvInit ==
    /\ world = WorldInit(TRUE, TRUE)
    /\ today = BACKFILL_START
    /\ last = NoRunYet

\* an empty store (the tables as init_db creates them), no session open
StoreInit ==
    /\ db_stations = {}
    /\ db_obs = {}
    /\ seq = [stations |-> 1, obs |-> 1]
    /\ tx = [s \in Sessions |-> TxClean]
    /\ call = [s \in Sessions |-> NoCall]
    /\ ret = [s \in Sessions |-> NoRet]
    /\ run = [s \in Sessions |-> RunOff]

(***************************************************************************)
(* iter_chunks_max_6_months, resumption by resumption                      *)
(***************************************************************************)
ChunkInit ==
    /\ \E s \in ChunkStarts :
       \E e \in {dt \in CalendarDates : (ToOrdinal(dt) - ToOrdinal(s)) \in SpanOffsets} :
          /\ ck_start = s
          /\ ck_end = e
          /\ ck_cur = s
    /\ ck_out = << >>
    /\ ck_pc = "run"
    /\ BackoffOff
    /\ StoreInit
    /\ EnvInit

\* one resumption of the generator that yields a chunk
ChunkYield ==
    /\ ck_pc = "run"
    /\ chunk_has_next(ck_cur, ck_end)
    /\ LET ce == chunk_end_of(ck_cur, ck_end)
       IN  /\ ck_out' = Append(ck_out, <<ck_cur, ce>>)
           /\ ck_cur' = chunk_next_cur(ce)
    /\ UNCHANGED <<ck_start, ck_end, ck_pc, bo, dbVars, repoVars, run, envVars>>

\* the resumption that finds cur > end_d and ends the iteration
ChunkStop ==
    /\ ck_pc = "run"
    /\ ~chunk_has_next(ck_cur, ck_end)
    /\ ck_pc' = "done"
    /\ UNCHANGED <<ck_start, ck_end, ck_cur, ck_out, bo, dbVars, repoVars, run, envVars>>

ChunkNext == ChunkYield \/ ChunkStop

SpecChunks == ChunkInit /\ [][ChunkNext]_vars

(***************************************************************************)
(* fetch_with_backoff, step by step                                        *)
(***************************************************************************)
BothConfigured == world.aemet_api_key /\ world.meteocat_api_key

\* what Provider A holds for the station: what it was seen to hold, or, at
\* the first call, any of the datasets
AemetDataOf(sid) ==
    LET seen == {x \in world.aemet_data : x.sid = sid}
    IN  IF seen = {} THEN AemetDatasetsOf(BothConfigured, sid) ELSE {x.data : x \in seen}

\* AemetClient.daily_range_by_station answers for the closure fn
AemetRangeAnswers(s) ==
    \E data \in AemetDataOf(bo[s].fn.sid) :
       /\ bo' = [bo EXCEPT ![s] =
                   BoAfterCall(bo[s], Ok(List(RowsInRange(data, bo[s].fn.chunk_start,
                                                          bo[s].fn.chunk_end))))]
       /\ world' = [world EXCEPT !.aemet_data = @ \cup {[sid |-> bo[s].fn.sid, data |-> data]}]

\* `return await fn()` and the except clauses around it
BoCallFn(s) ==
    /\ bo[s].pc = "call"
    /\ \/ AemetRangeAnswers(s)
       \/ /\ \E e \in FetchFailures : bo' = [bo EXCEPT ![s] = BoAfterCall(bo[s], Raise(e))]
          /\ UNCHANGED world
    /\ UNCHANGED <<chunkVars, dbVars, repoVars, run, today, last>>

\* `await asyncio.sleep(sleep_seconds)` has elapsed
BoSleepDone(s) ==
    /\ bo[s].pc = "sleep"
    /\ bo' = [bo EXCEPT ![s] = BoAfterSleep(bo[s])]
    /\ UNCHANGED <<chunkVars, dbVars, repoVars, run, envVars>>

BackoffFn == [sid |-> SidA1, chunk_start |-> date(2024, 1, 1), chunk_end |-> date(2024, 1, 2)]

BackoffInit ==
    /\ ChunkOff
    /\ StoreInit
    /\ EnvInit
    /\ \E mr \in 0..MaxRetriesBound : \E sl \in SleepChoices :
          bo = [s \in Sessions |->
                  IF s = 1 THEN BoEnter(BackoffFn, mr, sl) ELSE BoIdle]

BackoffNext == BoCallFn(1) \/ BoSleepDone(1)

SpecBackoff == BackoffInit /\ [][BackoffNext]_vars

(***************************************************************************)
(* What a session sees                                                     *)
(***************************************************************************)
ViewStations(s) == db_stations \cup tx[s].new_stations

ViewObs(s) ==
    {r \in db_obs : \A u \in tx[s].upd_obs : u.id # r.id}
    \cup tx[s].upd_obs \cup tx[s].new_obs

\* StationRepository.get_by_source_id: the rows the SELECT matches
StationsBySourceId(s, source, source_station_id) ==
    {r \in ViewStations(s) : r.source = source /\ r.source_station_id = source_station_id}

\* the rows the SELECT of upsert_observation matches
ObsByStationTs(s, station_id, ts) ==
    {r \in ViewObs(s) : r.station_id = station_id /\ r.ts = ts}

\* WeatherObservationRepository.get_latest_ts_by_station: max(ts), None
\* when the station has no row
get_latest_ts_by_station(s, station_id) ==
    LET T == {r.ts : r \in {x \in ViewObs(s) : x.station_id = station_id}}
    IN  IF T = {} THEN None
        ELSE CHOOSE t \in T : \A u \in T : TsLE(u, t)

OtherSessions(s) == Sessions \ {s}

\* how far the id sequences go: a bound under the direct callers of
\* SpecRepo, beyond what the runs of Spec can use otherwise
StationSeqCap(s) == IF run[s] = RunClient THEN MaxStationSeq ELSE 4 * (MaxRuns + 1)
ObsSeqCap(s) == IF run[s] = RunClient THEN MaxObsSeq ELSE 16 * (MaxRuns + 1)

\* the sessions whose uncommitted work makes the statement of s wait
BlockedBy(s) ==
    LET c == call[s] IN
    IF c.op = "create_if_not_exists" /\ c.stage = "flush"
    THEN {t \in OtherSessions(s) :
            ~uq_station_source_id(tx[t].new_stations,
                                  StationRow(0, c.source, c.source_station_id, c.name))}
    ELSE IF c.op = "upsert_observation" /\ c.stage = "insert"
    THEN {t \in OtherSessions(s) :
            ~uq_obs_station_ts(tx[t].new_obs, ObsRow(0, c.station_id, c.ts, c.m))}
    ELSE IF c.op = "upsert_observation" /\ c.stage = "update"
    THEN {t \in OtherSessions(s) : \E u \in tx[t].upd_obs : u.id = c.found.id}
    ELSE {}

\* the call of s is over: r is what the caller gets
Finished(s, c, r) ==
    IF run[s] = RunClient
    THEN /\ call' = [call EXCEPT ![s] = NoCall]
         /\ ret' = [ret EXCEPT ![s] = NoRet]
    ELSE /\ call' = [call EXCEPT ![s] = [c EXCEPT !.stage = "done"]]
         /\ ret' = [ret EXCEPT ![s] = r]

(***************************************************************************)
(* StationRepository.create_if_not_exists                                  *)
(***************************************************************************)
CreateCall(source, source_station_id, name) ==
    [op |-> "create_if_not_exists", stage |-> "select", source |-> source,
     source_station_id |-> source_station_id, name |-> name, found |-> None]

\* a variant that hands the stored station back under the name of the call
RepoSelectStation_takes_new_name(s, c) ==
    LET m == StationsBySourceId(s, c.source, c.source_station_id)
    IN  IF tx[s].failed THEN Finished(s, c, Raise(PendingRollbackError))
        ELSE IF m = {}
             THEN /\ call' = [call EXCEPT ![s] = [c EXCEPT !.stage = "flush"]]
                  /\ UNCHANGED ret
        ELSE IF Cardinality(m) = 1
             THEN LET st == CHOOSE r \in m : TRUE
                  IN  Finished(s, [c EXCEPT !.found = st], Ok([st EXCEPT !.name = c.name]))
        ELSE Finished(s, c, Raise(MultipleResultsFound))

\* the call is entered with c and runs up to its first statement:
\* `station = await self.get_by_source_id(...)`; `if station: return station`
RepoSelectStation(s, c) ==
    LET m == StationsBySourceId(s, c.source, c.source_station_id)
    IN  IF tx[s].failed THEN Finished(s, c, Raise(PendingRollbackError))
        ELSE IF m = {}
             THEN /\ call' = [call EXCEPT ![s] = [c EXCEPT !.stage = "flush"]]
                  /\ UNCHANGED ret
        ELSE IF Cardinality(m) = 1
             THEN LET st == CHOOSE r \in m : TRUE
                  IN  Finished(s, [c EXCEPT !.found = st], Ok(st))
        ELSE Finished(s, c, Raise(MultipleResultsFound))

\* `self.db.add(station)`; `await self.db.flush()`: the INSERT, no commit
RepoFlushStation(s) ==
    LET c == call[s]
        r == StationRow(seq.stations, c.source, c.source_station_id, c.name)
    IN  /\ c.op = "create_if_not_exists" /\ c.stage = "flush"
        /\ BlockedBy(s) = {}
        /\ seq.stations <= StationSeqCap(s)
        /\ seq' = [seq EXCEPT !.stations = @ + 1]
        /\ IF uq_station_source_id(ViewStations(s), r)
           THEN /\ tx' = [tx EXCEPT ![s].new_stations = @ \cup {r}]
                /\ Finished(s, c, Ok(r))
           ELSE /\ tx' = [tx EXCEPT ![s] = TxFailed]
                /\ Finished(s, c, Raise(IntegrityError))
        /\ UNCHANGED <<chunkVars, bo, db_stations, db_obs, run, envVars>>

(***************************************************************************)
(* WeatherObservationRepository.upsert_observation                         *)
(***************************************************************************)
UpsertCall(station_id, ts, m) ==
    [op |-> "upsert_observation", stage |-> "select", station_id |-> station_id,
     ts |-> ts, m |-> m, found |-> None, path |-> "none"]

\* the call is entered with c and runs up to its first statement: the
\* SELECT and `obs = result.scalar_one_or_none()`
RepoSelectObs(s, c) ==
    LET m == ObsByStationTs(s, c.station_id, c.ts)
    IN  IF tx[s].failed THEN Finished(s, c, Raise(PendingRollbackError))
        ELSE IF m = {}
             THEN /\ call' = [call EXCEPT ![s] =
                                [c EXCEPT !.stage = "insert", !.path = "insert"]]
                  /\ UNCHANGED ret
        ELSE IF Cardinality(m) = 1
             THEN /\ call' = [call EXCEPT ![s] =
                                [c EXCEPT !.stage = "update", !.path = "update",
                                          !.found = CHOOSE r \in m : TRUE]]
                  /\ UNCHANGED ret
        ELSE Finished(s, c, Raise(MultipleResultsFound))

\* the row after `obs.tmin = tmin ... obs.raw = raw`
obs_assigned_keep_nonnull(obs, m) ==
    [obs EXCEPT !.tmin = IF m.tmin = None THEN @ ELSE m.tmin,
                !.tmax = IF m.tmax = None THEN @ ELSE m.tmax,
                !.precip = IF m.precip = None THEN @ ELSE m.precip,
                !.tavg = IF m.tavg = None THEN @ ELSE m.tavg,
                !.raw = IF m.raw = None THEN @ ELSE m.raw]

obs_assigned(obs, m) ==
    [obs EXCEPT !.tmin = m.tmin, !.tmax = m.tmax, !.precip = m.precip,
                !.tavg = m.tavg, !.raw = m.raw]

\* `if obs:` the five assignments, `await self.db.flush()`, `return obs`:
\* the UPDATE of the row, and no commit
RepoUpdateObs(s) ==
    LET c == call[s]
        new == obs_assigned(c.found, c.m)
    IN  /\ c.op = "upsert_observation" /\ c.stage = "update"
        /\ BlockedBy(s) = {}
        /\ IF c.found \in tx[s].new_obs
           THEN tx' = [tx EXCEPT ![s].new_obs = (@ \ {c.found}) \cup {new}]
           ELSE tx' = [tx EXCEPT ![s].upd_obs = {u \in @ : u.id # new.id} \cup {new}]
        /\ Finished(s, [c EXCEPT !.found = new], Ok(new))
        /\ UNCHANGED <<chunkVars, bo, db_stations, db_obs, seq, run, envVars>>

\* `obs = WeatherObservation(...)`, `self.db.add(obs)`, `await self.db.flush()`
RepoInsertObs(s) ==
    LET c == call[s]
        r == ObsRow(seq.obs, c.station_id, c.ts, c.m)
    IN  /\ c.op = "upsert_observation" /\ c.stage = "insert"
        /\ BlockedBy(s) = {}
        /\ seq.obs <= ObsSeqCap(s)
        /\ seq' = [seq EXCEPT !.obs = @ + 1]
        /\ IF fk_obs_station(ViewStations(s), r) /\ uq_obs_station_ts(ViewObs(s), r)
           THEN /\ tx' = [tx EXCEPT ![s].new_obs = @ \cup {r}]
                /\ call' = [call EXCEPT ![s].stage = "commit", ![s].found = r]
                /\ UNCHANGED ret
           ELSE /\ tx' = [tx EXCEPT ![s] = TxFailed]
                /\ Finished(s, c, Raise(IntegrityError))
        /\ UNCHANGED <<chunkVars, bo, db_stations, db_obs, run, envVars>>

\* a variant that returns after the flush, without `await self.db.commit()`
RepoCommitObs_flush_only(s) ==
    LET c == call[s]
    IN  /\ c.op = "upsert_observation" /\ c.stage = "commit"
        /\ Finished(s, c, Ok(c.found))
        /\ UNCHANGED <<chunkVars, bo, dbVars, run, envVars>>

\* `await self.db.commit()`, `return obs`: everything the session flushed
\* so far becomes durable
RepoCommitObs(s) ==
    LET c == call[s]
    IN  /\ c.op = "upsert_observation" /\ c.stage = "commit"
        /\ db_stations' = ViewStations(s)
        /\ db_obs' = ViewObs(s)
        /\ tx' = [tx EXCEPT ![s] = TxClean]
        /\ Finished(s, c, Ok(c.found))
        /\ UNCHANGED <<chunkVars, bo, seq, run, envVars>>

\* two statements wait for each other: the server aborts one of them
RepoDeadlock(s) ==
    LET c == call[s]
    IN  /\ \E t \in BlockedBy(s) : s \in BlockedBy(t)
        /\ tx' = [tx EXCEPT ![s] = TxFailed]
        /\ Finished(s, c, Raise(DeadlockDetected))
        /\ UNCHANGED <<chunkVars, bo, db_stations, db_obs, seq, run, envVars>>

RepoStep(s) ==
    \/ RepoFlushStation(s)
    \/ RepoUpdateObs(s)
    \/ RepoInsertObs(s)
    \/ RepoCommitObs(s)
    \/ RepoDeadlock(s)

(***************************************************************************)
(* SpecRepo: two sessions call the two write methods in any order, with    *)
(* any arguments, and close (get_db leaves its `async with`).              *)
(***************************************************************************)
RepoSources == {"aemet", "meteocat"}
RepoStationIds == {Str(<<"X", "1">>)}
\* the name each session passes
RepoName(s) == IF s = 1 THEN Str(<<"n", "1">>) ELSE None
\* the (station_id, day) pairs the calls are made for
RepoObsKeys == {<<1, date(2024, 1, 1)>>, <<1, date(2024, 1, 2)>>}
\* the measures each session passes: session 1 full ones, the others
\* different ones with tavg None
RepoMeasures(s) ==
    IF s = 1
    THEN Measures(Float(5, 1), Float(15, 1), Float(10, 1), Float(6, 5), Str(<<"r", "1">>))
    ELSE Measures(Float(6, 1), Float(16, 1), None, Float(0, 1), None)

Idle(s) == run[s] = RunClient /\ call[s] = NoCall

ClientCreate(s) ==
    /\ Idle(s)
    /\ \E src \in RepoSources, sid \in RepoStationIds :
          RepoSelectStation(s, CreateCall(src, sid, RepoName(s)))
    /\ UNCHANGED <<chunkVars, bo, dbVars, run, envVars>>

ClientUpsert(s) ==
    /\ Idle(s)
    /\ \E k \in RepoObsKeys :
          RepoSelectObs(s, UpsertCall(k[1], ts_for_day(k[2]), RepoMeasures(s)))
    /\ UNCHANGED <<chunkVars, bo, dbVars, run, envVars>>

\* AsyncSession.close(): what was not committed is rolled back; the next
\* request gets a fresh session
session_closed(t) == TxClean

ClientClose(s) ==
    /\ Idle(s)
    /\ tx[s] # TxClean
    /\ tx' = [tx EXCEPT ![s] = session_closed(tx[s])]
    /\ UNCHANGED <<chunkVars, bo, db_stations, db_obs, seq, repoVars, run, envVars>>

RepoInit ==
    /\ ChunkOff /\ BackoffOff /\ EnvInit
    /\ db_stations = {}
    /\ db_obs = {}
    /\ seq = [stations |-> 1, obs |-> 1]
    /\ tx = [s \in Sessions |-> TxClean]
    /\ call = [s \in Sessions |-> NoCall]
    /\ ret = [s \in Sessions |-> NoRet]
    /\ run = [s \in Sessions |-> RunClient]

RepoNext ==
    \E s \in Sessions :
        \/ ClientCreate(s)
        \/ ClientUpsert(s)
        \/ ClientClose(s)
        \/ RepoStep(s)

SpecRepo == RepoInit /\ [][RepoNext]_vars

(***************************************************************************)
(* IngestionService.sync, from one await to the next.  run[s] holds the    *)
(* locals of the coroutine that session s serves:                          *)
(*   stations, idx     the station list being walked, entries consumed     *)
(*   sid, st           the native id and the stored row of the station     *)
(*   cur, chunk        iter_chunks_max_6_months' cursor, the chunk fetched *)
(*   rows, ridx        the rows of the chunk, rows consumed                *)
(*   d, raw            Provider B's day and its payload                    *)
(* and, for the record: latest_ts (what _compute_start_date read),         *)
(* planned, fetches (observation fetches begun for the station), unit (of  *)
(* the unit fetched last: the remote calls its fetch took, kept while its   *)
(* rows are in hand, the rows it brought that carry a day, the calls of    *)
(* upsert_observation so far),                                             *)
(* fetch_log                                                               *)
(* (what each remote call of the fetch that ended the station's turn did), *)
(* snap (the counters when the station's turn began), counted_stations    *)
(* and counted_obs (the rows the repositories returned for the upserts the *)
(* run counted, in order), ticked (the date                                *)
(* changed since the run began), unanswered (a provider call of the run    *)
(* raised), after_answered/after_clean (the previous run began and ended   *)
(* on this date and: no provider call of it raised / it reported no        *)
(* failure).                                                               *)
(***************************************************************************)
Counters0 == [aemet |-> 0, meteocat |-> 0]

\* `failures = {}`: a key that is absent is None (a text) or 0 (a count)
Failures0 ==
    [aemet |-> None, aemet_station_errors |-> 0,
     meteocat |-> None, meteocat_station_errors |-> 0]

NoSnap == [stations_upserted |-> Counters0, observations_upserted |-> Counters0,
           failures |-> Failures0]

NoChunk == [chunk_start |-> None, chunk_end |-> None]

\* no unit (chunk, day) fetched yet
NoUnit == [calls |-> 0, rows |-> 0, upserts |-> 0]

\* the rows of a chunk that carry a day (`if not fecha: continue`)
RECURSIVE Dated(_)
Dated(rows) ==
    IF rows = << >> THEN 0
    ELSE (IF Falsy(rows[1].fecha) THEN 0 ELSE 1) + Dated(Tail(rows))

\* the locals of one station's turn, before it
StationLocals ==
    [sid |-> None, st |-> None, latest_ts |-> None, planned |-> FALSE,
     start_d |-> None, end_d |-> None, cur |-> None, chunk |-> NoChunk,
     rows |-> << >>, ridx |-> 0, d |-> None, raw |-> None,
     fetches |-> 0, fetch_log |-> << >>, unit |-> NoUnit, snap |-> NoSnap]

ClearStation(r) ==
    [r EXCEPT !.sid = None, !.st = None, !.latest_ts = None, !.planned = FALSE,
              !.start_d = None, !.end_d = None, !.cur = None, !.chunk = NoChunk,
              !.rows = << >>, !.ridx = 0, !.d = None, !.raw = None,
              !.fetches = 0, !.fetch_log = << >>, !.unit = NoUnit, !.snap = NoSnap]

SnapOf(r) ==
    [stations_upserted |-> r.stations_upserted,
     observations_upserted |-> r.observations_upserted,
     failures |-> r.failures]

InSync(s) == run[s].pc \notin {"off", "client"}

\* IngestionService._today_utc
today_utc == today

\* a variant whose horizon is the current day
available_end_date_today(provider) == today_utc

\* IngestionService._available_end_date: yesterday, for both providers
available_end_date(provider) == PrevDay(today_utc)

\* IngestionService._compute_start_date, given what get_latest_ts_by_station read
compute_start_date_same_day(latest_ts) ==
    IF latest_ts = None THEN BACKFILL_START ELSE ts_utc_date(latest_ts)

compute_start_date_epoch(latest_ts) == BACKFILL_START

compute_start_date(latest_ts) ==
    IF latest_ts = None THEN BACKFILL_START ELSE NextDay(ts_utc_date(latest_ts))

\* the session after sync's caller is done with it
SyncSessions == {1}

SetRun(s, r) == run' = [run EXCEPT ![s] = r]

\* lines 130-139: the counters, AemetClient(), aemet_end
StartRun(s) ==
    /\ run[s] = RunOff
    /\ last.runs < MaxRuns
    /\ LET r0 == [pc |-> "aemet_list",
                  stations_upserted |-> Counters0,
                  observations_upserted |-> Counters0,
                  failures |-> Failures0,
                  aemet_end |-> None, meteocat_end |-> None,
                  stations |-> << >>, idx |-> 0,
                  response_date |-> None,
                  counted_stations |-> << >>, counted_obs |-> << >>,
                  ticked |-> FALSE, unanswered |-> FALSE,
                  after_answered |-> (last.date = today /\ last.answered),
                  after_clean |-> (last.date = today /\ last.clean)]
                 @@ StationLocals
       IN  IF world.aemet_api_key
           THEN SetRun(s, [r0 EXCEPT !.aemet_end = available_end_date("aemet")])
           ELSE SetRun(s, [r0 EXCEPT !.failures.aemet = Msg(AemetKeyMissing),
                                     !.pc = "meteocat_client"])
    /\ last' = [last EXCEPT !.runs = @ + 1]
    /\ UNCHANGED <<chunkVars, bo, dbVars, repoVars, world, today>>

\* a variant in which the error ends the run
AemetOuterFail_ends_run(r, e) ==
    [r EXCEPT !.failures.aemet = Msg(e), !.pc = "respond"]

\* the outer `except Exception as e` of the AEMET section (222-224)
AemetOuterFail(r, e) ==
    [r EXCEPT !.failures.aemet = Msg(e), !.pc = "meteocat_client"]

\* a variant that counts the error and goes on with the station's next chunk
AemetInnerFail_per_chunk(r) ==
    [r EXCEPT !.failures.aemet_station_errors = @ + 1,
              !.pc = "aemet_chunk", !.rows = << >>, !.ridx = 0]

\* the inner `except Exception`: one more station error, `continue` (213-218)
AemetInnerFail_uncounted(r) ==
    [r EXCEPT !.pc = "aemet_station", !.idx = @ + 1, !.rows = << >>, !.ridx = 0]

AemetInnerFail(r) ==
    [r EXCEPT !.failures.aemet_station_errors = @ + 1,
              !.pc = "aemet_station", !.idx = @ + 1, !.rows = << >>, !.ridx = 0]

\* what the provider lists: what it was seen to list, or, at first, any list
AemetListOf == IF world.aemet_stations = None THEN AemetStationLists(BothConfigured)
               ELSE {world.aemet_stations.known}

MeteocatListOf == IF world.meteocat_stations = None THEN MeteocatStationLists(BothConfigured)
                  ELSE {world.meteocat_stations.known}

\* `aemet_stations = await aemet.list_stations()` (141)
AemetListStations(s) ==
    /\ run[s].pc = "aemet_list"
    /\ \/ \E l \in AemetListOf :
             /\ SetRun(s, [run[s] EXCEPT !.stations = l, !.idx = 0, !.pc = "aemet_station"])
             /\ world' = [world EXCEPT !.aemet_stations = Known(l)]
       \/ \E e \in ListFailures :
             /\ SetRun(s, [AemetOuterFail(run[s], e) EXCEPT !.unanswered = TRUE])
             /\ UNCHANGED world
    /\ UNCHANGED <<chunkVars, bo, dbVars, repoVars, today, last>>

\* a variant that skips an entry only when its native id is the empty text
AemetNextStation_skips_empty_only(s) ==
    LET r == ClearStation(run[s])
    IN  /\ run[s].pc = "aemet_station"
        /\ IF r.idx = Len(r.stations)
           THEN /\ SetRun(s, [r EXCEPT !.pc = "meteocat_client"])
                /\ UNCHANGED repoVars
           ELSE LET meta == r.stations[r.idx + 1]
                    sid == aemet_sid(meta)
                IN  IF sid = Str(<< >>)
                    THEN /\ SetRun(s, [r EXCEPT !.idx = @ + 1])
                         /\ UNCHANGED repoVars
                    ELSE /\ SetRun(s, [r EXCEPT !.pc = "aemet_create", !.sid = sid,
                                                !.snap = SnapOf(r)])
                         /\ RepoSelectStation(s, CreateCall("aemet", sid, aemet_name(meta)))
        /\ UNCHANGED <<chunkVars, bo, dbVars, envVars>>

\* `for meta in aemet_stations`: the native id, the skip of an entry without
\* one, the call of create_if_not_exists (145-160); past the last entry,
\* the section is over
AemetNextStation(s) ==
    LET r == ClearStation(run[s])
    IN  /\ run[s].pc = "aemet_station"
        /\ IF r.idx = Len(r.stations)
           THEN /\ SetRun(s, [r EXCEPT !.pc = "meteocat_client"])
                /\ UNCHANGED repoVars
           ELSE LET meta == r.stations[r.idx + 1]
                    sid == aemet_sid(meta)
                IN  IF Falsy(sid)
                    THEN /\ SetRun(s, [r EXCEPT !.idx = @ + 1])
                         /\ UNCHANGED repoVars
                    ELSE /\ SetRun(s, [r EXCEPT !.pc = "aemet_create", !.sid = sid,
                                                !.snap = SnapOf(r)])
                         /\ RepoSelectStation(s, CreateCall("aemet", sid, aemet_name(meta)))
        /\ UNCHANGED <<chunkVars, bo, dbVars, envVars>>

\* `start_d > end_d`
already_up_to_date(start_d, end_d) == DateLT(end_d, start_d)

\* the station is stored: one more station, _compute_start_date, the end
\* day, and `continue` when there is nothing to fetch (161-171, 253-263)
Planned(s, r, st, end_d, pc_loop, pc_next) ==
    LET latest == get_latest_ts_by_station(s, st.id)
        start_d == compute_start_date(latest)
        r1 == [r EXCEPT !.st = st, !.latest_ts = latest, !.planned = TRUE,
                        !.start_d = start_d, !.end_d = end_d]
    IN  IF already_up_to_date(start_d, end_d)
        THEN [r1 EXCEPT !.pc = pc_next, !.idx = @ + 1]
        ELSE [r1 EXCEPT !.pc = pc_loop, !.cur = start_d, !.d = start_d]

\* create_if_not_exists returned or raised (156-171)
AemetStationCreated(s) ==
    /\ run[s].pc = "aemet_create"
    /\ call[s].stage = "done"
    /\ IF ret[s].kind = "raise"
       THEN SetRun(s, AemetOuterFail(run[s], ret[s].exc))
       ELSE LET r == [run[s] EXCEPT !.stations_upserted.aemet = @ + 1,
                                    !.counted_stations = Append(@, ret[s].value)]
            IN  IF tx[s].failed
                THEN SetRun(s, AemetOuterFail(r, PendingRollbackError))
                ELSE SetRun(s, Planned(s, r, ret[s].value, r.aemet_end,
                                       "aemet_chunk", "aemet_station"))
    /\ call' = [call EXCEPT ![s] = NoCall]
    /\ ret' = [ret EXCEPT ![s] = NoRet]
    /\ UNCHANGED <<chunkVars, bo, dbVars, envVars>>

\* `for chunk_start, chunk_end in self.iter_chunks_max_6_months(...)`: the
\* next chunk and the call of fetch_with_backoff, or the end of the
\* station's turn (175-182)
AemetNextChunk(s) ==
    LET r == run[s]
    IN  /\ r.pc = "aemet_chunk"
        /\ IF chunk_has_next(r.cur, r.end_d)
           THEN LET ce == chunk_end_of(r.cur, r.end_d)
                    fn == [sid |-> r.sid, chunk_start |-> r.cur, chunk_end |-> ce]
                IN  /\ SetRun(s, [r EXCEPT !.chunk = [chunk_start |-> r.cur, chunk_end |-> ce],
                                           !.cur = chunk_next_cur(ce),
                                           !.fetches = @ + 1,
                                           !.pc = "aemet_fetch"])
                    /\ bo' = [bo EXCEPT ![s] =
                                BoEnter(fn, DefaultMaxRetries, DefaultSleepSeconds)]
           ELSE /\ SetRun(s, [r EXCEPT !.pc = "aemet_station", !.idx = @ + 1])
                /\ UNCHANGED bo
        /\ UNCHANGED <<chunkVars, dbVars, repoVars, envVars>>

\* a variant in which the rows of a retried fetch are handed over once
\* more, as if the retry went round the upserts too
AemetFetched_retry_repeats_rows(s) ==
    LET r == run[s]
        b == bo[s]
    IN  /\ r.pc = "aemet_fetch"
        /\ b.pc \in {"returned", "raised"}
        /\ IF b.pc = "raised"
           THEN SetRun(s, [AemetInnerFail(r) EXCEPT !.unanswered = TRUE,
                                                    !.fetch_log = b.log])
           ELSE IF ~IsList(b.result.value)
           THEN SetRun(s, AemetInnerFail(r))
           ELSE LET got == IF Len(b.log) > 1
                           THEN b.result.value.list \o b.result.value.list
                           ELSE b.result.value.list
                IN  SetRun(s, [r EXCEPT !.rows = got, !.ridx = 0,
                                        !.unit = [calls |-> Len(b.log),
                                                  rows |-> Dated(b.result.value.list),
                                                  upserts |-> 0],
                                        !.pc = "aemet_row"])
        /\ bo' = [bo EXCEPT ![s] = BoIdle]
        /\ UNCHANGED <<chunkVars, dbVars, repoVars, envVars>>

\* fetch_with_backoff returned the rows or raised (176-185)
AemetFetched(s) ==
    LET r == run[s]
        b == bo[s]
    IN  /\ r.pc = "aemet_fetch"
        /\ b.pc \in {"returned", "raised"}
        /\ IF b.pc = "raised"
           THEN SetRun(s, [AemetInnerFail(r) EXCEPT !.unanswered = TRUE,
                                                    !.fetch_log = b.log])
           ELSE IF ~IsList(b.result.value)                 \* `for item in None`
           THEN SetRun(s, AemetInnerFail(r))
           ELSE SetRun(s, [r EXCEPT !.rows = b.result.value.list, !.ridx = 0,
                                    !.unit = [calls |-> Len(b.log),
                                              rows |-> Dated(b.result.value.list),
                                              upserts |-> 0],
                                    !.pc = "aemet_row"])
        /\ bo' = [bo EXCEPT ![s] = BoIdle]
        /\ UNCHANGED <<chunkVars, dbVars, repoVars, envVars>>

\* `station_id=st.id`
obs_station_id_unstored(st) == st.id + 1

obs_station_id(st) == st.id

\* the measures sync hands to upsert_observation for an AEMET item (195-207)
aemet_measures(item) ==
    Measures(parse_numeric(item.tmin), parse_numeric(item.tmax),
             parse_numeric(item.tmed), parse_numeric(item.prec), item)

\* a variant that counts a row without `fecha` as an upsert
AemetNextRow_counts_dateless(s) ==
    LET r == run[s]
    IN  /\ r.pc = "aemet_row"
        /\ IF r.ridx = Len(r.rows)
           THEN /\ SetRun(s, [r EXCEPT !.pc = "aemet_chunk", !.rows = << >>, !.ridx = 0,
                                        !.unit.calls = 0])
                /\ UNCHANGED repoVars
           ELSE LET item == r.rows[r.ridx + 1]
                IN  IF Falsy(item.fecha)
                    THEN /\ SetRun(s, [r EXCEPT !.ridx = @ + 1,
                                                  !.observations_upserted.aemet = @ + 1])
                         /\ UNCHANGED repoVars
                    ELSE LET day == fromisoformat(item.fecha)
                         IN  IF day = ValueError
                             THEN /\ SetRun(s, AemetInnerFail(r))
                                  /\ UNCHANGED repoVars
                             ELSE /\ SetRun(s, [r EXCEPT !.unit.upserts = @ + 1,
                                                          !.pc = "aemet_upsert"])
                                  /\ RepoSelectObs(s, UpsertCall(obs_station_id(r.st), ts_for_day(day),
                                                                 aemet_measures(item)))
        /\ UNCHANGED <<chunkVars, bo, dbVars, envVars>>

\* `for item in rows`: the row without date is skipped, the date is parsed,
\* upsert_observation is called (185-208); past the last row, next chunk
AemetNextRow(s) ==
    LET r == run[s]
    IN  /\ r.pc = "aemet_row"
        /\ IF r.ridx = Len(r.rows)
           THEN /\ SetRun(s, [r EXCEPT !.pc = "aemet_chunk", !.rows = << >>, !.ridx = 0,
                                        !.unit.calls = 0])
                /\ UNCHANGED repoVars
           ELSE LET item == r.rows[r.ridx + 1]
                IN  IF Falsy(item.fecha)
                    THEN /\ SetRun(s, [r EXCEPT !.ridx = @ + 1])
                         /\ UNCHANGED repoVars
                    ELSE LET day == fromisoformat(item.fecha)
                         IN  IF day = ValueError
                             THEN /\ SetRun(s, AemetInnerFail(r))
                                  /\ UNCHANGED repoVars
                             ELSE /\ SetRun(s, [r EXCEPT !.unit.upserts = @ + 1,
                                                          !.pc = "aemet_upsert"])
                                  /\ RepoSelectObs(s, UpsertCall(obs_station_id(r.st), ts_for_day(day),
                                                                 aemet_measures(item)))
        /\ UNCHANGED <<chunkVars, bo, dbVars, envVars>>

\* upsert_observation returned or raised (200-209)
AemetRowUpserted(s) ==
    LET r == run[s]
    IN  /\ r.pc = "aemet_upsert"
        /\ call[s].stage = "done"
        /\ IF ret[s].kind = "raise"
           THEN SetRun(s, AemetInnerFail(r))
           ELSE SetRun(s, [r EXCEPT !.observations_upserted.aemet = @ + 1,
                                    !.counted_obs = Append(@, ret[s].value),
                                    !.ridx = @ + 1, !.pc = "aemet_row"])
        /\ call' = [call EXCEPT ![s] = NoCall]
        /\ ret' = [ret EXCEPT ![s] = NoRet]
        /\ UNCHANGED <<chunkVars, bo, dbVars, envVars>>

\* a variant without the outer `except`: the error leaves sync
MeteocatOuterFail_propagates(r, e) ==
    [r EXCEPT !.pc = "raised"]

\* the outer `except Exception as e` of the Meteocat section (292-294)
MeteocatOuterFail(r, e) ==
    [r EXCEPT !.failures.meteocat = Msg(e), !.pc = "respond"]

\* a variant that goes on with the station's next day after a failure
MeteocatDayFail_next_day(r) ==
    [r EXCEPT !.failures.meteocat_station_errors = @ + 1,
              !.pc = "meteocat_day", !.d = NextDay(@), !.raw = None]

\* the `except Exception` of the day loop: one more station error, `break` (285-289)
MeteocatDayFail(r) ==
    [r EXCEPT !.failures.meteocat_station_errors = @ + 1,
              !.pc = "meteocat_station", !.idx = @ + 1, !.raw = None]

\* MeteocatClient(), meteocat_end (229-231)
MeteocatClientInit(s) ==
    LET r == [ClearStation(run[s]) EXCEPT !.stations = << >>, !.idx = 0]
    IN  /\ run[s].pc = "meteocat_client"
        /\ IF world.meteocat_api_key
           THEN SetRun(s, [r EXCEPT !.meteocat_end = available_end_date("meteocat"),
                                    !.pc = "meteocat_list"])
           ELSE SetRun(s, MeteocatOuterFail(r, MeteocatKeyMissing))
        /\ UNCHANGED <<chunkVars, bo, dbVars, repoVars, envVars>>

\* `m_stations = await meteocat.list_stations()` (233)
MeteocatListStations(s) ==
    /\ run[s].pc = "meteocat_list"
    /\ \/ \E l \in MeteocatListOf :
             /\ SetRun(s, [run[s] EXCEPT !.stations = l, !.idx = 0, !.pc = "meteocat_station"])
             /\ world' = [world EXCEPT !.meteocat_stations = Known(l)]
       \/ \E e \in ListFailures :
             /\ SetRun(s, [MeteocatOuterFail(run[s], e) EXCEPT !.unanswered = TRUE])
             /\ UNCHANGED world
    /\ UNCHANGED <<chunkVars, bo, dbVars, repoVars, today, last>>

\* `for meta in m_stations` (237-252); past the last entry, the response
MeteocatNextStation(s) ==
    LET r == ClearStation(run[s])
    IN  /\ run[s].pc = "meteocat_station"
        /\ IF r.idx = Len(r.stations)
           THEN /\ SetRun(s, [r EXCEPT !.pc = "respond"])
                /\ UNCHANGED repoVars
           ELSE LET meta == r.stations[r.idx + 1]
                    code == meteocat_code(meta)
                IN  IF Falsy(code)
                    THEN /\ SetRun(s, [r EXCEPT !.idx = @ + 1])
                         /\ UNCHANGED repoVars
                    ELSE /\ SetRun(s, [r EXCEPT !.pc = "meteocat_create", !.sid = code,
                                                !.snap = SnapOf(r)])
                         /\ RepoSelectStation(s, CreateCall("meteocat", code,
                                                            meteocat_name(meta)))
        /\ UNCHANGED <<chunkVars, bo, dbVars, envVars>>

\* create_if_not_exists returned or raised (248-266)
MeteocatStationCreated(s) ==
    /\ run[s].pc = "meteocat_create"
    /\ call[s].stage = "done"
    /\ IF ret[s].kind = "raise"
       THEN SetRun(s, MeteocatOuterFail(run[s], ret[s].exc))
       ELSE LET r == [run[s] EXCEPT !.stations_upserted.meteocat = @ + 1,
                                    !.counted_stations = Append(@, ret[s].value)]
            IN  IF tx[s].failed
                THEN SetRun(s, MeteocatOuterFail(r, PendingRollbackError))
                ELSE SetRun(s, Planned(s, r, ret[s].value, r.meteocat_end,
                                       "meteocat_day", "meteocat_station"))
    /\ call' = [call EXCEPT ![s] = NoCall]
    /\ ret' = [ret EXCEPT ![s] = NoRet]
    /\ UNCHANGED <<chunkVars, bo, dbVars, envVars>>

\* what Provider B holds for the station: what it was seen to hold, or, at
\* the first call, any of the datasets
MeteocatDataOf(code) ==
    LET seen == {x \in world.meteocat_data : x.code = code}
    IN  IF seen = {} THEN MeteocatDatasetsOf(BothConfigured, code) ELSE {x.data : x \in seen}

\* `while d <= end_d`: `raw = await meteocat.daily_by_station(code, d)`
\* answers or raises (267-271); past end_d, the station's turn is over
MeteocatFetchDay(s) ==
    LET r == run[s]
    IN  /\ r.pc = "meteocat_day"
        /\ IF DateLE(r.d, r.end_d)
           THEN \/ \E data \in MeteocatDataOf(r.sid) :
                      /\ SetRun(s, [r EXCEPT !.raw = PayloadOn(data, r.d), !.fetches = @ + 1,
                                             !.unit = [calls |-> 1, rows |-> 1, upserts |-> 0],
                                             !.pc = "meteocat_fetched"])
                      /\ world' = [world EXCEPT !.meteocat_data =
                                      @ \cup {[code |-> r.sid, data |-> data]}]
                \/ \E e \in FetchFailures :
                      /\ SetRun(s, [MeteocatDayFail(r) EXCEPT !.fetches = @ + 1,
                                                              !.unanswered = TRUE,
                                                              !.fetch_log = <<Raise(e)>>])
                      /\ UNCHANGED world
           ELSE /\ SetRun(s, [r EXCEPT !.pc = "meteocat_station", !.idx = @ + 1])
                /\ UNCHANGED world
        /\ UNCHANGED <<chunkVars, bo, dbVars, repoVars, today, last>>

\* the measures sync hands to upsert_observation for a Meteocat day (272-282)
meteocat_measures(a, raw) == Measures(a.tmin, a.tmax, a.tavg, a.precip, raw)

\* a variant that keeps the day's observation for later and goes on to the
\* next day
MeteocatUpsertDay_postponed(s) ==
    LET r == run[s]
    IN  /\ r.pc = "meteocat_fetched"
        /\ SetRun(s, [r EXCEPT !.d = NextDay(@), !.raw = None, !.pc = "meteocat_day"])
        /\ UNCHANGED repoVars
        /\ UNCHANGED <<chunkVars, bo, dbVars, envVars>>

\* parse_daily_payload and the call of upsert_observation (272-282)
MeteocatUpsertDay(s) ==
    LET r == run[s]
        parsed == parse_daily_payload(r.raw)
    IN  /\ r.pc = "meteocat_fetched"
        /\ IF parsed.kind = "raise"
           THEN /\ SetRun(s, MeteocatDayFail(r))
                /\ UNCHANGED repoVars
           ELSE /\ SetRun(s, [r EXCEPT !.unit.upserts = @ + 1, !.pc = "meteocat_upsert"])
                /\ RepoSelectObs(s, UpsertCall(obs_station_id(r.st), ts_for_day(r.d),
                                               meteocat_measures(parsed.value, r.raw)))
        /\ UNCHANGED <<chunkVars, bo, dbVars, envVars>>

\* a variant without `d += timedelta(days=1)`
MeteocatDayUpserted_same_day(s) ==
    LET r == run[s]
    IN  /\ r.pc = "meteocat_upsert"
        /\ call[s].stage = "done"
        /\ IF ret[s].kind = "raise"
           THEN SetRun(s, MeteocatDayFail(r))
           ELSE SetRun(s, [r EXCEPT !.observations_upserted.meteocat = @ + 1,
                                    !.counted_obs = Append(@, ret[s].value),
                                    !.raw = None,
                                    !.pc = "meteocat_day"])
        /\ call' = [call EXCEPT ![s] = NoCall]
        /\ ret' = [ret EXCEPT ![s] = NoRet]
        /\ UNCHANGED <<chunkVars, bo, dbVars, envVars>>

\* upsert_observation returned or raised; `d += timedelta(days=1)` (274-290)
MeteocatDayUpserted(s) ==
    LET r == run[s]
    IN  /\ r.pc = "meteocat_upsert"
        /\ call[s].stage = "done"
        /\ IF ret[s].kind = "raise"
           THEN SetRun(s, MeteocatDayFail(r))
           ELSE SetRun(s, [r EXCEPT !.observations_upserted.meteocat = @ + 1,
                                    !.counted_obs = Append(@, ret[s].value),
                                    !.d = NextDay(@), !.raw = None,
                                    !.pc = "meteocat_day"])
        /\ call' = [call EXCEPT ![s] = NoCall]
        /\ ret' = [ret EXCEPT ![s] = NoRet]
        /\ UNCHANGED <<chunkVars, bo, dbVars, envVars>>

NoFailures(f) == f = Failures0

\* `return IngestionDailyResponse(date=self._today_utc(), ...)` (296-301)
Respond(s) ==
    LET r == run[s]
    IN  /\ r.pc = "respond"
        /\ SetRun(s, [ClearStation(r) EXCEPT !.pc = "done", !.response_date = today_utc,
                                             !.stations = << >>, !.idx = 0])
        /\ last' = [last EXCEPT !.date = IF r.ticked THEN None ELSE today,
                                !.answered = ~r.unanswered,
                                !.clean = NoFailures(r.failures)]
        /\ UNCHANGED <<chunkVars, bo, dbVars, repoVars, world, today>>

\* the caller has the response; get_db leaves its `async with`
CloseSession(s) ==
    /\ run[s].pc = "done"
    /\ SetRun(s, RunOff)
    /\ tx' = [tx EXCEPT ![s] = session_closed(tx[s])]
    /\ UNCHANGED <<chunkVars, bo, db_stations, db_obs, seq, repoVars, envVars>>

DayJul2 == NextDay(DayJul1)

RECURSIVE PlusDays(_, _)
PlusDays(d, n) == IF n = 0 THEN d ELSE PlusDays(NextDay(d), n - 1)

\* the last date the clock reaches
LastToday(t) ==
    IF DateLT(t, DayJul1)
    THEN PlusDays(BACKFILL_START, MaxDaysAfterEpoch)
    ELSE DayJul2

\* midnight UTC.  A run reads the clock when it begins, when it turns to
\* Provider B and when it builds the response: a midnight at any moment of
\* a run is a midnight just before the next of these readings.
Tick ==
    /\ DateLT(today, LastToday(today))
    /\ \A s \in Sessions : run[s].pc \in {"off", "client", "meteocat_client", "respond"}
    /\ today' = NextDay(today)
    /\ run' = [s \in Sessions |->
                 IF InSync(s) THEN [run[s] EXCEPT !.ticked = TRUE] ELSE run[s]]
    /\ UNCHANGED <<chunkVars, bo, dbVars, repoVars, world, last>>

\* the settings a deployment can have and the dates its clock starts from:
\* near BACKFILL_START with any provider configured, or six months later
\* with Provider A alone
Init ==
    /\ ChunkOff /\ BackoffOff /\ StoreInit
    /\ last = NoRunYet
    /\ \/ /\ today = BACKFILL_START
          /\ \E k \in {<<TRUE, TRUE>>, <<TRUE, FALSE>>, <<FALSE, TRUE>>} :
                world = WorldInit(k[1], k[2])
       \/ /\ today = DayJul1
          /\ world = WorldInit(TRUE, FALSE)

Next ==
    \/ \E s \in SyncSessions :
        \/ StartRun(s)
        \/ AemetListStations(s)
        \/ AemetNextStation(s)
        \/ AemetStationCreated(s)
        \/ AemetNextChunk(s)
        \/ BoCallFn(s)
        \/ BoSleepDone(s)
        \/ AemetFetched(s)
        \/ AemetNextRow(s)
        \/ AemetRowUpserted(s)
        \/ MeteocatClientInit(s)
        \/ MeteocatListStations(s)
        \/ MeteocatNextStation(s)
        \/ MeteocatStationCreated(s)
        \/ MeteocatFetchDay(s)
        \/ MeteocatUpsertDay(s)
        \/ MeteocatDayUpserted(s)
        \/ RepoFlushStation(s)
        \/ RepoUpdateObs(s)
        \/ RepoInsertObs(s)
        \/ RepoCommitObs(s)
        \/ Respond(s)
        \/ CloseSession(s)
    \/ Tick

Spec == Init /\ [][Next]_vars

(***************************************************************************)
(* SpecOverlap: two requests are served at once, each by sync on a session *)
(* of its own, on 2024-01-03 with one provider configured that lists two   *)
(* stations and holds two good days for the first.  The clock does not     *)
(* reach midnight meanwhile.                                               *)
(***************************************************************************)
OverlapWorlds ==
    {[WorldInit(TRUE, FALSE) EXCEPT
         !.aemet_stations = Known(<<MetaA1, MetaA2>>),
         !.aemet_data = {[sid |-> SidA1, data |-> DataTwoDays]}],
     [WorldInit(FALSE, TRUE) EXCEPT
         !.meteocat_stations = Known(<<MetaM1, MetaM2>>),
         !.meteocat_data =
             {[code |-> CodeM1, data |-> MeteocatData(PayloadFull, PayloadFull, PayloadFull)]}]}

OverlapInit ==
    /\ ChunkOff /\ BackoffOff /\ StoreInit
    /\ last = NoRunYet
    /\ today = Day3
    /\ world \in OverlapWorlds

OverlapNext ==
    \E s \in Sessions :
        \/ StartRun(s)
        \/ AemetListStations(s)
        \/ AemetNextStation(s)
        \/ AemetStationCreated(s)
        \/ AemetNextChunk(s)
        \/ BoCallFn(s)
        \/ BoSleepDone(s)
        \/ AemetFetched(s)
        \/ AemetNextRow(s)
        \/ AemetRowUpserted(s)
        \/ MeteocatClientInit(s)
        \/ MeteocatListStations(s)
        \/ MeteocatNextStation(s)
        \/ MeteocatStationCreated(s)
        \/ MeteocatFetchDay(s)
        \/ MeteocatUpsertDay(s)
        \/ MeteocatDayUpserted(s)
        \/ RepoFlushStation(s)
        \/ RepoUpdateObs(s)
        \/ RepoInsertObs(s)
        \/ RepoCommitObs(s)
        \/ Respond(s)
        \/ CloseSession(s)

SpecOverlap == OverlapInit /\ [][OverlapNext]_vars

(***************************************************************************)
(* The runs of sync (Spec)                                                 *)
(***************************************************************************)
\* a step of the store leaves the committed rows as they were
StoreUnchanged == db_stations' = db_stations /\ db_obs' = db_obs

RefersToStation(stations, obs) ==
    \A r \in obs : \E st \in stations : st.id = r.station_id

\* C5: in every state of a run, every observation, committed or seen by
\* the run's session, has the id of a station that is stored too, and an
\* upsert_observation in progress is for the station the run has upserted
\* just before.
C5_ObservationsReferToStoredStations ==
    /\ RefersToStation(db_stations, db_obs)
    /\ \A s \in SyncSessions :
          /\ RefersToStation(ViewStations(s), ViewObs(s))
          /\ (InSync(s) /\ call[s].op = "upsert_observation") =>
                \E st \in ViewStations(s) :
                   /\ st.id = call[s].station_id
                   /\ st.source_station_id = run[s].sid
                   /\ st.source = (IF run[s].pc = "aemet_upsert" THEN "aemet" ELSE "meteocat")

\* observations of a station of each provider are committed while a run upserts another
C5_Witness ==
    /\ \E r \in db_obs : \E st \in db_stations : st.id = r.station_id /\ st.source = "aemet"
    /\ \E r \in db_obs : \E st \in db_stations : st.id = r.station_id /\ st.source = "meteocat"
    /\ \E s \in SyncSessions : InSync(s) /\ call[s].op = "upsert_observation"

\* the days of the observations session s sees for the station
StoredDays(s, station_id) ==
    {ts_utc_date(r.ts) : r \in {x \in ViewObs(s) : x.station_id = station_id}}

\* the station's range has been planned and nothing has been fetched since
JustPlanned(s) == InSync(s) /\ run[s].planned /\ run[s].fetches = 0

\* C6: the start day planned for a station is 2024-01-01 when no observation
\* of the station is stored, and otherwise the day after the latest stored
\* observation day of the station.
C6_PlannedStartDay ==
    \A s \in SyncSessions :
        JustPlanned(s) =>
            LET days == StoredDays(s, run[s].st.id)
            IN  IF days = {} THEN run[s].start_d = date(2024, 1, 1)
                ELSE \E D \in days :
                        /\ \A d \in days : DateLE(d, D)
                        /\ ToOrdinal(run[s].start_d) = ToOrdinal(D) + 1

\* a station with stored observations has been planned to start the day
\* after the latest of them, and there are days to fetch
C6_Witness ==
    \E s \in SyncSessions :
        /\ JustPlanned(s)
        /\ StoredDays(s, run[s].st.id) # {}
        /\ DateLE(run[s].start_d, run[s].end_d)

\* the station in turn was planned to start after the provider's end day:
\* its start day, as C6 has it, from what _compute_start_date read
StartsAfterEnd(r) ==
    /\ r.planned
    /\ IF r.latest_ts = None THEN DateLT(r.end_d, date(2024, 1, 1))
       ELSE ToOrdinal(ts_utc_date(r.latest_ts)) + 1 > ToOrdinal(r.end_d)

\* C7, as stated: for a station planned to start after the provider's end
\* day no observation fetch is begun and none of the counters of the
\* response moves during the station's turn.
C7_UpToDateStationLeavesAllCounters ==
    \A s \in SyncSessions :
        (InSync(s) /\ StartsAfterEnd(run[s])) =>
            /\ run[s].fetches = 0
            /\ SnapOf(run[s]) = run[s].snap

\* C7, amended: for a station planned to start after the provider's end
\* day no observation fetch is begun, and observations_upserted and the
\* failures stay as they were when the station's turn began (the station
\* still counts in stations_upserted).
C7_UpToDateStationFetchesNothing ==
    \A s \in SyncSessions :
        (InSync(s) /\ StartsAfterEnd(run[s])) =>
            /\ run[s].fetches = 0
            /\ run[s].observations_upserted = run[s].snap.observations_upserted
            /\ run[s].failures = run[s].snap.failures

\* a station with stored observations up to the end day has had its turn
C7_Witness ==
    \E s \in SyncSessions :
        /\ InSync(s) /\ StartsAfterEnd(run[s])
        /\ run[s].latest_ts # None
        /\ run[s].stations_upserted.aemet + run[s].stations_upserted.meteocat >= 1

(***************************************************************************)
(* The two tables (SpecRepo)                                               *)
(***************************************************************************)
OnePerStationTs(rows) ==
    \A x \in rows : \A y \in rows :
        (x.station_id = y.station_id /\ x.ts = y.ts) => x = y

OnePerSourceId(rows) ==
    \A x \in rows : \A y \in rows :
        (x.source = y.source /\ x.source_station_id = y.source_station_id) => x = y

\* C1: the observation table, as committed and as every session sees it,
\* holds at most one row for each (station_id, ts) pair.
C1_OneObservationPerStationTs ==
    /\ OnePerStationTs(db_obs)
    /\ \A s \in Sessions : OnePerStationTs(ViewObs(s))

\* two days of one station are committed, and a session has flushed a
\* second upsert of one of them
C1_Witness ==
    /\ Cardinality(db_obs) = 2
    /\ \E s \in Sessions : \E u \in tx[s].upd_obs : \E r \in db_obs :
          u.station_id = r.station_id /\ u.ts = r.ts /\ u # r

\* C2: the station table, as committed and as every session sees it, holds
\* at most one row for each (source, source_station_id) pair.
C2_OneStationPerSourceId ==
    /\ OnePerSourceId(db_stations)
    /\ \A s \in Sessions : OnePerSourceId(ViewStations(s))

\* both providers' stations with the same native id are committed, and a
\* session lost its transaction on a duplicate insert of one of them
C2_Witness ==
    /\ Cardinality(db_stations) = 2
    /\ \E x \in db_stations : \E y \in db_stations :
          x.source # y.source /\ x.source_station_id = y.source_station_id
    /\ \E s \in Sessions : tx[s].failed

\* C4: when upsert_observation finds the (station, ts) row and updates it,
\* the session then sees exactly one row for the pair, the row found, and
\* its tmin, tmax, tavg, precip and raw are those of the call, a None of
\* the call included.
C4_UpsertReplacesAllFields ==
    [][\A s \in Sessions :
         (/\ call[s].op = "upsert_observation"
          /\ call[s].stage = "update"
          /\ call'[s] # call[s]
          /\ ~tx'[s].failed)
         => LET c == call[s]
                m == {r \in ViewObs(s)' : r.station_id = c.station_id /\ r.ts = c.ts}
            IN  /\ Cardinality(m) = 1
                /\ \A r \in m : r.id = c.found.id /\ MeasuresOf(r) = c.m]_vars

\* a committed row with five values was overwritten by a call that passed
\* other values for three fields and None for tavg and raw
C4_Witness ==
    \E s \in Sessions : \E u \in tx[s].upd_obs : \E r \in db_obs :
        /\ u.id = r.id
        /\ r.tmin # None /\ r.tavg # None /\ r.raw # None
        /\ u.tmin # None /\ u.tmin # r.tmin
        /\ u.tavg = None /\ u.raw = None

(***************************************************************************)
(* Chunking (SpecChunks)                                                   *)
(***************************************************************************)
ChunkStartOf(i) == ck_out[i][1]
ChunkEndOf(i) == ck_out[i][2]

\* C8: for start_d <= end_d the chunks come in increasing date order, the
\* first starts at start_d, each next one starts the day after the previous
\* one ends, the last ends at end_d, and every day of [start_d, end_d] lies
\* in exactly one chunk.
C8_ChunksPartitionRange ==
    (ck_pc \in {"run", "done"} /\ DateLE(ck_start, ck_end)) =>
        /\ \A i \in 1..Len(ck_out) : DateLE(ChunkStartOf(i), ChunkEndOf(i))
        /\ Len(ck_out) >= 1 => ChunkStartOf(1) = ck_start
        /\ \A i \in 1..(Len(ck_out) - 1) :
              ToOrdinal(ChunkStartOf(i + 1)) = ToOrdinal(ChunkEndOf(i)) + 1
        /\ \A i \in 1..Len(ck_out) : DateLE(ChunkEndOf(i), ck_end)
        /\ ck_pc = "done" =>
              /\ Len(ck_out) >= 1
              /\ ChunkEndOf(Len(ck_out)) = ck_end
              /\ \A n \in ToOrdinal(ck_start)..ToOrdinal(ck_end) :
                    Cardinality({i \in 1..Len(ck_out) :
                        ToOrdinal(ChunkStartOf(i)) <= n /\ n <= ToOrdinal(ChunkEndOf(i))}) = 1

\* a range of more than a year was split into three chunks or more
C8_Witness ==
    /\ ck_pc = "done"
    /\ DateLE(ck_start, ck_end)
    /\ Len(ck_out) >= 3

\* C9: every chunk ends strictly before add_months(chunk_start, 6), and
\* add_months(chunk_start, 6) is a valid date, six months after the month
\* of chunk_start, whose day is the day of chunk_start clamped to the last
\* day of that month.
C9_ChunkAtMostSixMonths ==
    ck_pc \in {"run", "done"} =>
        \A i \in 1..Len(ck_out) :
            LET cs == ChunkStartOf(i)
                lim == add_months(cs, ChunkMonths)
            IN  /\ DateLT(ChunkEndOf(i), lim)
                /\ IsValidDate(lim)
                /\ lim.year * 12 + (lim.month - 1) = cs.year * 12 + (cs.month - 1) + ChunkMonths
                /\ lim.day = Min(cs.day, DaysInMonth(lim.year, lim.month))

\* a full chunk that starts on a 31st, crosses a year boundary and has its
\* limit clamped to the end of February
C9_Witness ==
    /\ ck_pc = "done"
    /\ \E i \in 1..Len(ck_out) :
          LET cs == ChunkStartOf(i)
              lim == add_months(cs, ChunkMonths)
          IN  /\ cs.day = 31
              /\ lim.year = cs.year + 1
              /\ lim.month = 2
              /\ lim.day < cs.day
              /\ ChunkEndOf(i) = PrevDay(lim)

(***************************************************************************)
(* Retry controller (SpecBackoff)                                          *)
(***************************************************************************)
AllRateLimited(log) == \A j \in 1..Len(log) : log[j] = Raise(Http429)

\* C10: with max_retries >= 1, fn is called at most max_retries times and
\* every sleep lasts sleep_seconds and comes between two calls; when every
\* call signalled 429 the function raises the rate-limit error after
\* exactly max_retries calls and max_retries - 1 sleeps; when it returns,
\* the k-th call succeeded after k - 1 rate-limited calls and k - 1 sleeps,
\* and the value returned is the value of that k-th call.
C10_BackoffRetriesThenRaises ==
    \A s \in Sessions :
        LET b == bo[s] IN
        (b.pc # "idle" /\ b.max_retries >= 1) =>
            /\ Len(b.log) <= b.max_retries
            /\ \A j \in 1..Len(b.sleeps) : b.sleeps[j] = b.sleep_seconds
            /\ b.pc = "call" => (Len(b.log) = b.attempt - 1 /\ Len(b.sleeps) = Len(b.log))
            /\ b.pc = "sleep" => (Len(b.log) = b.attempt /\ Len(b.sleeps) = Len(b.log) - 1)
            /\ (b.pc = "raised" /\ AllRateLimited(b.log)) =>
                  /\ Len(b.log) = b.max_retries
                  /\ Len(b.sleeps) = b.max_retries - 1
                  /\ b.result = Raise(RateLimitExceeded)
            /\ (b.pc = "raised" /\ b.result = Raise(RateLimitExceeded)) =>
                  AllRateLimited(b.log)
            /\ b.pc = "returned" =>
                  /\ Len(b.log) >= 1
                  /\ b.log[Len(b.log)].kind = "ok"
                  /\ b.result = b.log[Len(b.log)]
                  /\ AllRateLimited(SubSeq(b.log, 1, Len(b.log) - 1))
                  /\ Len(b.sleeps) = Len(b.log) - 1

\* three rate-limited calls, two sleeps, then the rate-limit error
C10_Witness ==
    \E s \in Sessions :
        /\ bo[s].pc = "raised"
        /\ bo[s].max_retries = DefaultMaxRetries
        /\ bo[s].result = Raise(RateLimitExceeded)
        /\ Len(bo[s].log) = DefaultMaxRetries
        /\ Len(bo[s].sleeps) = DefaultMaxRetries - 1

\* the third call succeeded after two rate-limited calls
C10_WitnessSuccess ==
    \E s \in Sessions :
        /\ bo[s].pc = "returned"
        /\ Len(bo[s].log) = 3
        /\ Len(bo[s].sleeps) = 2

(***************************************************************************)
(* Failures of a station's turn (Spec)                                     *)
(***************************************************************************)
\* the station's turn ended because its observation fetch raised after a
\* rate-limit answer to the last remote call
RateLimitedOut(r) ==
    /\ r.fetch_log # << >>
    /\ r.fetch_log[Len(r.fetch_log)] = Raise(Http429)

\* C12, as stated: an observation fetch of either provider (a chunk of
\* Provider A, a day of Provider B) that is answered 429 is tried again, so
\* the fetch fails on a 429 only at the DefaultMaxRetries-th remote call,
\* every earlier call having been answered 429 too.
C12_RateLimitedFetchIsRetried ==
    \A s \in SyncSessions :
        (InSync(s) /\ RateLimitedOut(run[s])) =>
            /\ Len(run[s].fetch_log) = DefaultMaxRetries
            /\ AllRateLimited(run[s].fetch_log)

\* the step in which sync finds that fetch_with_backoff raised
AemetFetchFails(s) ==
    /\ run[s].pc = "aemet_fetch"
    /\ bo[s].pc = "raised"
    /\ run'[s].pc # "aemet_fetch"

\* the observations of station st that session s flushed and has not committed
PendingObsOf(s, st) ==
    {o \in tx[s].new_obs \cup tx[s].upd_obs : o.station_id = st.id}

\* the failure is counted once and the run turns to the next station
C13_CountedAndSkipped(s) ==
    /\ run'[s].failures =
          [run[s].failures EXCEPT !.aemet_station_errors = @ + 1]
    /\ run'[s].pc = "aemet_station"
    /\ run'[s].idx = run[s].idx + 1
    /\ run'[s].stations = run[s].stations

\* once a fetch of the station has failed, no fetch is begun for it
C13_NoLaterChunk(s) ==
    (InSync(s) /\ run[s].fetch_log # << >>) =>
        /\ bo'[s] = BoIdle
        /\ run'[s].pc \notin {"aemet_chunk", "aemet_fetch", "aemet_row", "aemet_upsert"}

\* C13, as stated: when the fetch of a chunk of a Provider-A station
\* raises (after the retries), aemet_station_errors grows by one and
\* nothing else of the failures changes, the run turns to the next entry of
\* the station list and begins no other fetch for the station, and every
\* observation upserted for the station from the chunks before is in the
\* committed table: none is left flushed in the open transaction.
C13_FailedChunkKeepsEarlierChunks ==
    [][\A s \in SyncSessions :
          /\ AemetFetchFails(s) =>
                /\ C13_CountedAndSkipped(s)
                /\ db_obs' = db_obs
                /\ PendingObsOf(s, run[s].st) = {}
          /\ C13_NoLaterChunk(s)]_vars

\* the part of C13 that does not depend on what the upserts committed
C13_FailureIsCountedAndSkipped ==
    [][\A s \in SyncSessions :
          /\ AemetFetchFails(s) =>
                /\ C13_CountedAndSkipped(s)
                /\ db_obs' = db_obs
          /\ C13_NoLaterChunk(s)]_vars

\* the step in which the fetch, the parse or the upsert of a Provider-B day
\* raises into the `except Exception` of the day loop
MeteocatDayFails(s) ==
    /\ run'[s] # run[s]
    /\ \/ run[s].pc = "meteocat_day" /\ run'[s].fetch_log # << >>
       \/ run[s].pc = "meteocat_fetched" /\ parse_daily_payload(run[s].raw).kind = "raise"
       \/ run[s].pc = "meteocat_upsert" /\ call[s].stage = "done" /\ ret[s].kind = "raise"

\* the failure is counted once and the day loop of the station is left
C14_CountedAndSkipped(s) ==
    /\ run'[s].failures =
          [run[s].failures EXCEPT !.meteocat_station_errors = @ + 1]
    /\ run'[s].pc = "meteocat_station"
    /\ run'[s].idx = run[s].idx + 1
    /\ run'[s].stations = run[s].stations

\* a day is fetched only while the station's turn has met no failure
C14_NoLaterDay(s) ==
    (run[s].pc = "meteocat_day" /\ run'[s].fetches > run[s].fetches) =>
        run[s].failures = run[s].snap.failures

\* the station after the failed one is refused: its create_if_not_exists
\* raises because of the statement that failed before
NextStationRefused(s) ==
    /\ run[s].pc = "meteocat_create"
    /\ run[s].failures.meteocat_station_errors > 0
    /\ ret[s] = Raise(PendingRollbackError)

\* C14, as stated: when the fetch, the parse or the upsert of a day of a
\* Provider-B station fails, meteocat_station_errors grows by one and
\* nothing else of the failures changes, no later day of the station is
\* fetched, and the run goes on with the next station of the list: that
\* station is taken up, not refused because of the failure.
C14_FailedDaySkipsToNextStation ==
    [][\A s \in Sessions :
          /\ MeteocatDayFails(s) => C14_CountedAndSkipped(s)
          /\ C14_NoLaterDay(s)
          /\ ~NextStationRefused(s)]_vars

\* the part of C14 that holds whatever failed
C14_FailureIsCountedAndSkipped ==
    [][\A s \in Sessions :
          /\ MeteocatDayFails(s) => C14_CountedAndSkipped(s)
          /\ C14_NoLaterDay(s)]_vars

\* o, a row the run counted, is of a station of the provider
CountedFor(r, provider, o) ==
    \E i \in 1..Len(r.counted_stations) :
        /\ r.counted_stations[i].id = o.station_id
        /\ r.counted_stations[i].source = provider

\* the rows the run counted for the provider, in order
RECURSIVE CountedObsOf(_, _, _)
CountedObsOf(r, provider, k) ==
    IF k = 0 THEN << >>
    ELSE LET rest == CountedObsOf(r, provider, k - 1)
         IN  IF CountedFor(r, provider, r.counted_obs[k])
             THEN Append(rest, r.counted_obs[k]) ELSE rest

AemetProviderFails(s) ==
    \/ run[s] = RunOff /\ run'[s] # RunOff /\ ~world.aemet_api_key
    \/ InSync(s) /\ run[s].pc = "aemet_list" /\ run'[s].pc \notin {"aemet_list", "aemet_station"}

\* the step in which MeteocatClient() or meteocat.list_stations() raises
MeteocatProviderFails(s) ==
    /\ InSync(s)
    /\ \/ run[s].pc = "meteocat_client" /\ run'[s].pc # "meteocat_client" /\ ~world.meteocat_api_key
       \/ run[s].pc = "meteocat_list" /\ run'[s].pc \notin {"meteocat_list", "meteocat_station"}

\* the texts a provider-level failure can be recorded as
ProviderFailureTexts ==
    {Msg(e) : e \in ListFailures \cup {AemetKeyMissing, MeteocatKeyMissing}}

\* the step leaves the tables, the sessions and the repository calls alone
StoreUntouched == UNCHANGED <<db_stations, db_obs, seq, tx, call, ret>>

AemetPcs == {"aemet_list", "aemet_station", "aemet_create", "aemet_chunk", "aemet_fetch",
             "aemet_row", "aemet_upsert"}
MeteocatPcs == {"meteocat_client", "meteocat_list", "meteocat_station", "meteocat_create",
                "meteocat_day", "meteocat_fetched", "meteocat_upsert"}

\* C16: when a provider's adapter cannot be built (no API key) or its
\* station list cannot be fetched, the provider has zero stations and zero
\* observations in the counters, failures[provider] is the text of the
\* error, and nothing else changes: the store is untouched, Provider A's
\* failure is followed by Provider B's section, Provider B's failure leaves
\* what Provider A's section counted and recorded.  While one provider's
\* section runs, the other's counters and failure entries do not change,
\* and the response carries them.
C16_ProviderFailureIsContained ==
    [][\A s \in SyncSessions :
          /\ AemetProviderFails(s) =>
                /\ run'[s].stations_upserted = Counters0
                /\ run'[s].observations_upserted = Counters0
                /\ run'[s].failures.aemet \in ProviderFailureTexts
                /\ run'[s].failures = [Failures0 EXCEPT !.aemet = run'[s].failures.aemet]
                /\ run'[s].pc = "meteocat_client"
                /\ StoreUntouched
          /\ MeteocatProviderFails(s) =>
                /\ run[s].stations_upserted.meteocat = 0
                /\ run[s].observations_upserted.meteocat = 0
                /\ run'[s].stations_upserted = run[s].stations_upserted
                /\ run'[s].observations_upserted = run[s].observations_upserted
                /\ run'[s].failures.meteocat \in ProviderFailureTexts
                /\ run'[s].failures = [run[s].failures EXCEPT !.meteocat = run'[s].failures.meteocat]
                /\ run'[s].pc = "respond"
                /\ StoreUntouched
          /\ (InSync(s) /\ run[s].pc \in AemetPcs /\ run'[s] # RunOff) =>
                /\ run'[s].stations_upserted.meteocat = 0
                /\ run'[s].observations_upserted.meteocat = 0
                /\ run'[s].failures.meteocat = None
                /\ run'[s].failures.meteocat_station_errors = 0
          /\ (InSync(s) /\ run[s].pc \in MeteocatPcs \cup {"respond"}) =>
                /\ run'[s].stations_upserted.aemet = run[s].stations_upserted.aemet
                /\ run'[s].observations_upserted.aemet = run[s].observations_upserted.aemet
                /\ run'[s].failures.aemet = run[s].failures.aemet
                /\ run'[s].failures.aemet_station_errors = run[s].failures.aemet_station_errors]_vars

\* a response after Provider B's station list could not be fetched, with
\* observations of Provider A counted
C16_Witness ==
    \E s \in SyncSessions :
        /\ run[s].pc = "done"
        /\ run[s].failures.meteocat \in {Msg(e) : e \in ListFailures}
        /\ run[s].failures.aemet = None
        /\ run[s].stations_upserted.meteocat = 0
        /\ run[s].observations_upserted.aemet > 0

\* a response after Provider A's adapter could not be built, with
\* observations of Provider B counted
C16_WitnessNoKey ==
    \E s \in SyncSessions :
        /\ run[s].pc = "done"
        /\ run[s].failures.aemet = Msg(AemetKeyMissing)
        /\ run[s].stations_upserted.aemet = 0
        /\ run[s].observations_upserted.meteocat > 0

(***************************************************************************)
(* Failures of a station's turn, whatever raised (SpecOverlap)             *)
(***************************************************************************)
\* the step in which a statement of a Provider-A station's turn raises:
\* create_if_not_exists or _compute_start_date, the fetch, the date of a
\* row, upsert_observation
AemetStationFails(s) ==
    /\ InSync(s) /\ run'[s] # run[s]
    /\ \/ /\ run[s].pc = "aemet_create" /\ call[s].stage = "done"
          /\ (ret[s].kind = "raise" \/ tx[s].failed)
       \/ /\ run[s].pc = "aemet_fetch"
          /\ (bo[s].pc = "raised" \/ (bo[s].pc = "returned" /\ ~IsList(bo[s].result.value)))
       \/ /\ run[s].pc = "aemet_row" /\ run[s].ridx < Len(run[s].rows)
          /\ ~Falsy(run[s].rows[run[s].ridx + 1].fecha)
          /\ fromisoformat(run[s].rows[run[s].ridx + 1].fecha) = ValueError
       \/ run[s].pc = "aemet_upsert" /\ call[s].stage = "done" /\ ret[s].kind = "raise"

\* the same for a Provider-B station
MeteocatStationFails(s) ==
    /\ InSync(s) /\ run'[s] # run[s]
    /\ \/ /\ run[s].pc = "meteocat_create" /\ call[s].stage = "done"
          /\ (ret[s].kind = "raise" \/ tx[s].failed)
       \/ MeteocatDayFails(s)

\* C17, as stated: whatever fails in a station's turn (the station upsert,
\* the planning of the start day, the fetch, an observation upsert), the
\* provider's count of station errors grows by one, nothing else of the
\* failures changes, and the run turns to the next entry of the same
\* provider's station list.
C17_StationFailureSkipsOnlyThatStation ==
    [][\A s \in Sessions :
          /\ AemetStationFails(s) =>
                /\ run'[s].failures =
                      [run[s].failures EXCEPT !.aemet_station_errors = @ + 1]
                /\ run'[s].pc = "aemet_station"
                /\ run'[s].idx = run[s].idx + 1
                /\ run'[s].stations = run[s].stations
          /\ MeteocatStationFails(s) =>
                /\ run'[s].failures =
                      [run[s].failures EXCEPT !.meteocat_station_errors = @ + 1]
                /\ run'[s].pc = "meteocat_station"
                /\ run'[s].idx = run[s].idx + 1
                /\ run'[s].stations = run[s].stations]_vars

(***************************************************************************)
(* What a run leaves committed (Spec)                                      *)
(***************************************************************************)
\* the j-th counted observation is the last one counted for its key
LastCountedForKey(r, j) ==
    \A k \in (j + 1)..Len(r.counted_obs) :
        ~(/\ r.counted_obs[k].station_id = r.counted_obs[j].station_id
          /\ r.counted_obs[k].ts = r.counted_obs[j].ts)

\* C18, as stated: when sync has returned its response, every station the
\* run counted in stations_upserted is a row of the committed table
\* stations, and every observation it counted in observations_upserted,
\* inserted or overwritten, is a row of the committed table
\* weather_observations with the values last upserted for its key.
C18_CountedWritesAreCommitted ==
    \A s \in SyncSessions :
        (InSync(s) /\ run[s].pc = "done") =>
            /\ \A i \in 1..Len(run[s].counted_stations) :
                  run[s].counted_stations[i] \in db_stations
            /\ \A j \in 1..Len(run[s].counted_obs) :
                  LastCountedForKey(run[s], j) => run[s].counted_obs[j] \in db_obs

(***************************************************************************)
(* Overlapping requests (SpecOverlap)                                      *)
(***************************************************************************)
\* the step in which the INSERT of create_if_not_exists is answered: the
\* SELECT before it found no row, another session may have inserted since
CreateInsertAnswered(s) ==
    /\ call[s].op = "create_if_not_exists"
    /\ call[s].stage = "flush"
    /\ call'[s].stage = "done"

\* every row stored for the key of call c, committed or flushed by a session
StoredForKey(c) ==
    {x \in db_stations \cup UNION {tx[t].new_stations : t \in Sessions} :
        x.source = c.source /\ x.source_station_id = c.source_station_id}

\* C19, as stated: a create_if_not_exists that found no row and whose
\* INSERT meets the row another session inserted meanwhile does not raise:
\* it returns a station with the key asked for, which is the one row
\* stored for the key (so both callers return the same row).
C19_ConcurrentCreateReturnsSameStation ==
    [][\A s \in Sessions :
          CreateInsertAnswered(s) =>
              /\ ret'[s].kind = "ok"
              /\ StoredForKey(call[s])' = {ret'[s].value}]_vars

\* the committed observations, each with the provider and the native id of
\* its station in place of the ids the sequences handed out
StoredByKey ==
    {[source |-> st.source, source_station_id |-> st.source_station_id,
      ts |-> o.ts, m |-> MeasuresOf(o)] :
        <<st, o>> \in {p \in db_stations \X db_obs : p[1].id = p[2].station_id}}

\* the days from BACKFILL_START to the end day of a run that begins today
DaysToFetch == {d \in {BACKFILL_START, Day2, Day3} : DateLE(d, PrevDay(today))}

\* what a lone run stores from Provider A, every call answered
AemetOutcome ==
    IF ~world.aemet_api_key THEN {}
    ELSE LET l == CHOOSE x \in AemetListOf : TRUE
         IN  UNION {LET sid == aemet_sid(l[i])
                        data == CHOOSE x \in AemetDataOf(sid) : TRUE
                        rows == RowsInRange(data, BACKFILL_START, PrevDay(today))
                    IN  {[source |-> "aemet", source_station_id |-> sid,
                          ts |-> ts_for_day(fromisoformat(rows[j].fecha)),
                          m |-> aemet_measures(rows[j])] : j \in 1..Len(rows)}
                    : i \in 1..Len(l)}

\* what a lone run stores from Provider B, every call answered
MeteocatOutcome ==
    IF ~world.meteocat_api_key THEN {}
    ELSE LET l == CHOOSE x \in MeteocatListOf : TRUE
         IN  UNION {LET code == meteocat_code(l[i])
                        data == CHOOSE x \in MeteocatDataOf(code) : TRUE
                    IN  {[source |-> "meteocat", source_station_id |-> code,
                          ts |-> ts_for_day(d),
                          m |-> meteocat_measures(parse_daily_payload(PayloadOn(data, d)).value,
                                                  PayloadOn(data, d))] : d \in DaysToFetch}
                    : i \in 1..Len(l)}

\* the failures a lone run records, every call answered: the missing key
LoneRunFailures ==
    [Failures0 EXCEPT
        !.aemet = IF world.aemet_api_key THEN None ELSE Msg(AemetKeyMissing),
        !.meteocat = IF world.meteocat_api_key THEN None ELSE Msg(MeteocatKeyMissing)]

\* both runs have returned, and the providers answered every call of both
BothAnswered == \A s \in Sessions : run[s].pc = "done" /\ ~run[s].unanswered

\* the observations stored are those of the two runs made one after the other
C20_SameStoreAsInSequence ==
    BothAnswered => StoredByKey = AemetOutcome \cup MeteocatOutcome

\* C20, as stated: when two runs overlap on the same stations and days and
\* the providers answer every call, the observations stored at the end are
\* those the two runs store when made one after the other, one row per
\* station and day, and neither run records a failure that a lone run
\* does not record.
C20_OverlapIsHarmless ==
    BothAnswered =>
        /\ StoredByKey = AemetOutcome \cup MeteocatOutcome
        /\ OnePerStationTs(db_obs)
        /\ \A s \in Sessions : run[s].failures = LoneRunFailures

\* an error of fn that is no rate-limit signal
OtherError(o) == o.kind = "raise" /\ o.exc # Http429

\* C11: when a call of fn raises an error that is not a 429 status error
\* (another HTTP status, or an exception of another class), at whatever
\* attempt, that call is the last one, fetch_with_backoff raises that same
\* error, and no sleep follows the call (the sleeps are those of the
\* rate-limited calls before it).
C11_OtherErrorPropagatesAtOnce ==
    \A s \in Sessions :
        LET b == bo[s] IN
        b.pc # "idle" =>
            \A j \in 1..Len(b.log) :
                OtherError(b.log[j]) =>
                    /\ j = Len(b.log)
                    /\ b.pc = "raised"
                    /\ b.result = b.log[j]
                    /\ Len(b.sleeps) = j - 1

\* a connection error at the second attempt, after one rate-limited call
C11_Witness ==
    \E s \in Sessions :
        /\ bo[s].pc = "raised"
        /\ bo[s].log = <<Raise(Http429), Raise(NetErr)>>
        /\ bo[s].result = Raise(NetErr)
        /\ Len(bo[s].sleeps) = 1

(***************************************************************************)
(* What a fetched payload can do to its unit (Spec)                        *)
(***************************************************************************)
\* the run holds a fetched payload it has still to parse: a Provider-B
\* day's payload, or a Provider-A row of the chunk
HoldsPayload(s) ==
    \/ run[s].pc = "meteocat_fetched"
    \/ run[s].pc = "aemet_row" /\ run[s].ridx < Len(run[s].rows)

\* the step that parses the payload the run holds
ParsesPayload(s) == HoldsPayload(s) /\ run'[s] # run[s]

\* C21, as stated: whatever a fetched payload holds (a measurement that is
\* no number, a key that is missing), parsing it does not fail the
\* station's unit: no failure is counted, the station is not left, and the
\* observation goes to the store, unless the row names no day at all.
C21_ParseErrorNeverFailsTheUnit ==
    [][\A s \in SyncSessions :
          ParsesPayload(s) =>
              /\ run'[s].failures = run[s].failures
              /\ run'[s].idx = run[s].idx
              /\ \/ run'[s].pc \in {"meteocat_upsert", "aemet_upsert"}
                 \/ run[s].pc = "aemet_row" /\ Falsy(run[s].rows[run[s].ridx + 1].fecha)]_vars

(***************************************************************************)
(* SpecParse: AemetClient.parse_numeric on drawn inputs: None, a number    *)
(* (JSON can carry one where a text is expected) and every text of at most *)
(* MaxTextLen characters of ParseChars, "abc" included.                    *)
(***************************************************************************)
MaxTextLen == 3
ParseChars == {"5", "0", ",", ".", "-", "a"}

TextsUpTo(n) == UNION {[1..k -> ParseChars] : k \in 0..n}

ParseInputs == {None, Float(5, 1), TxtAbc} \cup {Str(cs) : cs \in TextsUpTo(MaxTextLen)}

\* a caller about to call parse_numeric(v)
RunParse(v) == [pc |-> "parse_numeric", v |-> v, out |-> NoRet]

ParseInit ==
    /\ ChunkOff /\ BackoffOff /\ EnvInit
    /\ db_stations = {} /\ db_obs = {}
    /\ seq = [stations |-> 1, obs |-> 1]
    /\ tx = [s \in Sessions |-> TxClean]
    /\ call = [s \in Sessions |-> NoCall]
    /\ ret = [s \in Sessions |-> NoRet]
    /\ \E v \in ParseInputs : run = [s \in Sessions |-> IF s = 1 THEN RunParse(v) ELSE RunOff]

\* the call returns, or an exception leaves it
ParseNumeric(s) ==
    /\ run[s].pc = "parse_numeric"
    /\ SetRun(s, [run[s] EXCEPT !.pc = "parsed", !.out = parse_numeric(run[s].v)])
    /\ UNCHANGED <<chunkVars, bo, dbVars, repoVars, envVars>>

ParseNext == ParseNumeric(1)

SpecParse == ParseInit /\ [][ParseNext]_vars

\* the call is over
Parsed(s) == run[s].pc = "parsed"

\* C22: parse_numeric raises for no input: it returns a number or None;
\* "5,0" gives 5.0, "abc" gives None, None gives None.
C22_ParseNumericNeverRaises ==
    \A s \in Sessions :
        Parsed(s) =>
            /\ run[s].out = None \/ IsFloat(run[s].out)
            /\ run[s].v = Txt5c0 => run[s].out = Float(5, 1)
            /\ run[s].v = TxtAbc => run[s].out = None
            /\ run[s].v = None => run[s].out = None

\* "5,0" was parsed
C22_Witness == Parsed(1) /\ run[1].v = Txt5c0 /\ run[1].out = Float(5, 1)

\* "abc" was parsed
C22_WitnessAbc == Parsed(1) /\ run[1].v = TxtAbc /\ run[1].out = None

(***************************************************************************)
(* The HTTP application: app.main.create_app, the routers of app/routers   *)
(* and the read methods of the repositories.  A request is served by a     *)
(* handler on a session of its own, which sees the committed rows.         *)
(***************************************************************************)
\* an Optional query parameter that was given
Some(v) == [some |-> v]

Route(method, path) == [method |-> method, path |-> path]

\* the routes each router module declares
health_router == {Route("GET", "/health"), Route("GET", "/health/db")}
ingestion_router == {Route("POST", "/ingestion/daily")}
observations_router == {Route("GET", "/observations")}
stations_router == {Route("GET", "/stations")}

\* FastAPI(docs_url=..., redoc_url=..., openapi_url=...)
docs_routes == {Route("GET", "/docs"), Route("GET", "/redoc"), Route("GET", "/openapi.json")}

\* the routes of the application create_app returns: those of the routers
\* it hands to include_router, and the documentation
create_app == docs_routes \cup health_router

\* what a handler answers, and the statements it executed on its session
Response(status, body, queries) == [status |-> status, body |-> body, queries |-> queries]

\* raise HTTPException(status_code, detail)
HTTPException(status_code, detail, queries) ==
    Response(status_code, [detail |-> detail], queries)

\* an exception no handler catches: Starlette's ServerErrorMiddleware
InternalServerError(queries) == Response(500, [detail |-> "Internal Server Error"], queries)

\* a path no route matches: Starlette's default handler
not_found == Response(404, [detail |-> "Not Found"], << >>)

\* `not station_id`
FalsyInt(p) == p = None \/ p.some = 0
\* `not source`
FalsyText(p) == p = None \/ p.some = ""

\* StationRepository.get_by_id: scalar_one_or_none over the primary key
get_by_id(s, station_id) ==
    LET rows == {r \in ViewStations(s) : r.id = station_id}
    IN  IF rows = {} THEN None ELSE CHOOSE r \in rows : TRUE

\* StationRepository.get_by_source_id: scalar_one_or_none
get_by_source_id(s, source, source_station_id) ==
    LET rows == StationsBySourceId(s, source, source_station_id)
    IN  IF rows = {} THEN None
        ELSE IF Cardinality(rows) = 1 THEN CHOOSE r \in rows : TRUE
        ELSE [error |-> MultipleResultsFound]

\* ORDER BY ts ASC
RECURSIVE OrderByTs(_)
OrderByTs(rows) ==
    IF rows = {} THEN << >>
    ELSE LET m == CHOOSE r \in rows : \A x \in rows : TsLE(r.ts, x.ts)
         IN  <<m>> \o OrderByTs(rows \ {m})

\* ORDER BY id ASC
RECURSIVE OrderById(_)
OrderById(rows) ==
    IF rows = {} THEN << >>
    ELSE LET m == CHOOSE r \in rows : \A x \in rows : r.id <= x.id
         IN  <<m>> \o OrderById(rows \ {m})

\* LIMIT limit OFFSET offset
Page(rows, limit, offset) == SubSeq(rows, offset + 1, Min(Len(rows), offset + limit))

\* datetime.combine(d, datetime.min.time(), tzinfo=timezone.utc)
combine_min(d) == ts_for_day(d)
\* datetime.combine(d, datetime.max.time(), tzinfo=timezone.utc): the last
\* instant of the day (23:59:59.999999; the store holds whole seconds)
combine_max(d) ==
    [year |-> d.year, month |-> d.month, day |-> d.day,
     hour |-> 23, minute |-> 59, second |-> 59, tz |-> "UTC"]

\* WeatherObservationRepository.get_range_by_station: (items, total)
get_range_by_station(s, station_id, start_ts, end_ts, limit, offset) ==
    LET match == {r \in ViewObs(s) : /\ r.station_id = station_id
                                     /\ TsLE(start_ts, r.ts)
                                     /\ TsLE(r.ts, end_ts)}
    IN  [items |-> Page(OrderByTs(match), limit, offset), total |-> Cardinality(match)]

\* StationRepository.list_stations
list_stations_rows(s, source, limit, offset) ==
    LET match == IF FalsyText(source) THEN ViewStations(s)
                 ELSE {r \in ViewStations(s) : r.source = source.some}
    IN  Page(OrderById(match), limit, offset)

\* the attributes of a WeatherObservation instance
ObsAttributes == {"id", "station_id", "ts", "tmin", "tmax", "tavg", "precip", "raw", "station"}

\* ObservationOut(date=o.ts.date(), tmin=o.tmin, tmax=o.tmax,
\* precip=o.precip, wind=o.wind): AttributeError for an attribute the
\* instance has not
ObservationOut(o) ==
    IF {"ts", "tmin", "tmax", "precip", "wind"} \subseteq ObsAttributes
    THEN [date |-> ts_utc_date(o.ts), tmin |-> o.tmin, tmax |-> o.tmax,
          precip |-> o.precip, wind |-> None]
    ELSE [error |-> "AttributeError"]

\* ObservationStationOut.model_validate(station), StationOut.model_validate(x)
StationOut(st) ==
    [id |-> st.id, source |-> st.source, source_station_id |-> st.source_station_id,
     name |-> st.name]

\* GET /observations (app/routers/observations.py)
list_observations(s, q) ==
    IF FalsyInt(q.station_id) /\ (FalsyText(q.source) \/ Falsy(q.source_station_id))
    THEN HTTPException(400, "Provide station_id or (source + source_station_id)", << >>)
    ELSE LET station == IF ~FalsyInt(q.station_id)
                        THEN get_by_id(s, q.station_id.some)
                        ELSE get_by_source_id(s, q.source.some, q.source_station_id)
             sel == <<"SELECT stations">>
         IN  IF station = None THEN HTTPException(404, "Station not found", sel)
             ELSE IF station = [error |-> MultipleResultsFound] THEN InternalServerError(sel)
             ELSE LET r == get_range_by_station(s, station.id, combine_min(q.start_date),
                                                combine_max(q.end_date), q.limit, q.offset)
                      qs == sel \o <<"SELECT weather_observations",
                                     "SELECT count(weather_observations)">>
                      items == [i \in DOMAIN r.items |-> ObservationOut(r.items[i])]
                  IN  IF \E i \in DOMAIN items : items[i] = [error |-> "AttributeError"]
                      THEN InternalServerError(qs)
                      ELSE Response(200, [station |-> StationOut(station), items |-> items,
                                          total |-> r.total], qs)

\* GET /stations (app/routers/stations.py)
list_stations(s, q) ==
    LET items == list_stations_rows(s, q.source, q.limit, q.offset)
        counted == IF FalsyText(q.source) THEN ViewStations(s)
                   ELSE {r \in ViewStations(s) : r.source = q.source.some}
    IN  Response(200, [items |-> [i \in DOMAIN items |-> StationOut(items[i])],
                       total |-> Cardinality(counted)],
                 <<"SELECT stations", "SELECT count(stations.id)">>)

\* POST /ingestion/daily (app/routers/ingestion.py): IngestionService has
\* no method ingest_daily, the attribute lookup raises AttributeError inside
\* the handler's try, and the handler answers HTTPException(500) for it
ingestion_daily(s, q) ==
    HTTPException(500, "Ingestion failed: 'IngestionService' object has no attribute 'ingest_daily'",
                  << >>)

\* GET /health
health == Response(200, [status |-> "ok"], << >>)

\* GET /health/db
health_db == Response(200, [status |-> "ok", db |-> "ok"], <<"SELECT 1">>)

RouteOf(q) == Route(q.method, q.path)

\* the handler of the request's route
Handle(s, q) ==
    CASE RouteOf(q) = Route("GET", "/health") -> health
      [] RouteOf(q) = Route("GET", "/health/db") -> health_db
      [] RouteOf(q) = Route("GET", "/observations") -> list_observations(s, q)
      [] RouteOf(q) = Route("GET", "/stations") -> list_stations(s, q)
      [] RouteOf(q) = Route("POST", "/ingestion/daily") -> ingestion_daily(s, q)

\* a request waiting for the application
RunHttp(q) == [pc |-> "http", request |-> q, response |-> NoRet]

\* the application matches the request's route and its handler answers
ServeRoute(s) ==
    /\ run[s].pc = "http"
    /\ RouteOf(run[s].request) \in create_app
    /\ SetRun(s, [run[s] EXCEPT !.pc = "answered",
                                !.response = Handle(s, run[s].request)])
    /\ UNCHANGED <<chunkVars, bo, dbVars, repoVars, envVars>>

\* no route of the application matches the request
ServeNotFound(s) ==
    /\ run[s].pc = "http"
    /\ RouteOf(run[s].request) \notin create_app
    /\ SetRun(s, [run[s] EXCEPT !.pc = "answered", !.response = not_found])
    /\ UNCHANGED <<chunkVars, bo, dbVars, repoVars, envVars>>

(***************************************************************************)
(* SpecApi: one request reaches the application over a store that earlier  *)
(* runs have filled: up to three stations, up to three days of the first   *)
(* and one day of the second.                                              *)
(***************************************************************************)
MaxLimit == 2
DefaultObsLimit == 500
DefaultStationsLimit == 200

ApiStationPool ==
    {StationRow(1, "aemet", SidA1, Str(<<"a", "1">>)),
     StationRow(2, "meteocat", CodeM1, Str(<<"m", "1">>)),
     StationRow(3, "aemet", SidA2, None)}

\* the rows of station 1 were not stored in the order of their days
ApiObsPool ==
    {ObsRow(1, 1, ts_for_day(Day2), aemet_measures(RowA(Day2))),
     ObsRow(2, 1, ts_for_day(BACKFILL_START), aemet_measures(RowB(BACKFILL_START))),
     ObsRow(3, 1, ts_for_day(Day3), aemet_measures(RowA(Day3))),
     ObsRow(4, 2, ts_for_day(Day2),
            meteocat_measures(parse_daily_payload(PayloadFull).value, PayloadFull))}

ApiStores ==
    {st \in [stations : SUBSET ApiStationPool, obs : SUBSET ApiObsPool] :
        \A o \in st.obs : fk_obs_station(st.stations, o)}

ApiDays == {BACKFILL_START, Day2, Day3}

ObservationQueries ==
    [method : {"GET"}, path : {"/observations"},
     start_date : ApiDays, end_date : ApiDays,
     station_id : {None, Some(0), Some(1), Some(9)},
     source : {None, Some("aemet")},
     source_station_id : {None, SidA1, CodeM1},
     limit : (1..MaxLimit) \cup {DefaultObsLimit}, offset : 0..MaxLimit]

StationQueries ==
    [method : {"GET"}, path : {"/stations"},
     source : {None, Some(""), Some("aemet"), Some("meteocat"), Some("other")},
     limit : (1..MaxLimit) \cup {DefaultStationsLimit}, offset : 0..MaxLimit]

IngestionRequests ==
    [method : {"POST"}, path : {"/ingestion/daily"}, body : {[date |-> None], [date |-> Day2]}]

HealthRequests == [method : {"GET"}, path : {"/health", "/health/db"}]

ApiRequests == ObservationQueries \cup StationQueries \cup IngestionRequests \cup HealthRequests

ApiInit ==
    /\ ChunkOff /\ BackoffOff
    /\ world = [WorldInit(TRUE, TRUE) EXCEPT !.aemet_stations = Known(<<MetaA1, MetaA2>>),
                                             !.meteocat_stations = Known(<<MetaM1>>)]
    /\ today = Day3
    /\ last = NoRunYet
    /\ \E st \in ApiStores : db_stations = st.stations /\ db_obs = st.obs
    /\ seq = [stations |-> 4, obs |-> 5]
    /\ tx = [s \in Sessions |-> TxClean]
    /\ call = [s \in Sessions |-> NoCall]
    /\ ret = [s \in Sessions |-> NoRet]
    /\ \E q \in ApiRequests : run = [s \in Sessions |-> IF s = 1 THEN RunHttp(q) ELSE RunOff]

ApiNext == ServeRoute(1) \/ ServeNotFound(1)

SpecApi == ApiInit /\ [][ApiNext]_vars

(***************************************************************************)
(* The endpoints (SpecApi)                                                 *)
(***************************************************************************)
\* the request session s serves has been answered
Answered(s) == run[s].pc = "answered"
\* session s serves, or has served, a request of the route
Serves(s, method, path) ==
    run[s].pc \in {"http", "answered"} /\ RouteOf(run[s].request) = Route(method, path)

\* what the handler of the request's route answers when the application
\* hands it the request
HandlerAnswer(s) == Handle(s, run[s].request)

\* a POST /ingestion/daily for a target day is answered 200 with the day
\* and the counters of a run in which every listed station got one
\* observation, and the store holds every listed station with an
\* observation of that day
DailyAnswer(resp, q) ==
    LET n_a == Len(world.aemet_stations.known)
        n_b == Len(world.meteocat_stations.known)
        listed == {[source |-> "aemet", id |-> aemet_sid(world.aemet_stations.known[i])] :
                      i \in 1..n_a}
                  \cup {[source |-> "meteocat",
                         id |-> meteocat_code(world.meteocat_stations.known[i])] : i \in 1..n_b}
    IN  /\ resp.status = 200
        /\ resp.body.date = q.body.date
        /\ resp.body.stations_upserted = [aemet |-> n_a, meteocat |-> n_b]
        /\ resp.body.observations_upserted = [aemet |-> n_a, meteocat |-> n_b]
        /\ \A l \in listed :
              \E st \in db_stations :
                 /\ st.source = l.source /\ st.source_station_id = l.id
                 /\ \E o \in db_obs : o.station_id = st.id /\ ts_utc_date(o.ts) = q.body.date

\* C23, as stated: POST /ingestion/daily with a target day, both providers
\* answering for their N_A and N_B stations, is answered 200 with the
\* target day, stations_upserted and observations_upserted = {aemet: N_A,
\* meteocat: N_B}, and the store then holds these stations with one
\* observation each, dated the target day.
C23_DailyIngestionOfTargetDay ==
    \A s \in Sessions :
        (Answered(s) /\ Serves(s, "POST", "/ingestion/daily") /\ run[s].request.body.date # None)
            => DailyAnswer(run[s].response, run[s].request)

\* neither station_id nor the (source, source_station_id) pair is given
NoSelector(q) == q.station_id = None /\ (q.source = None \/ q.source_station_id = None)

\* the stored stations the selector of the query names
Named(q) ==
    IF q.station_id # None THEN {st \in db_stations : st.id = q.station_id.some}
    ELSE {st \in db_stations : /\ st.source = q.source.some
                               /\ st.source_station_id = q.source_station_id}

ObsQueries == {"SELECT weather_observations", "SELECT count(weather_observations)"}

\* 400 without a selector, 404 for a selector that names no stored station,
\* and no observation query in either case
SelectorAnswer(resp, q) ==
    /\ NoSelector(q) => resp.status = 400
    /\ (~NoSelector(q) /\ Named(q) = {}) => resp.status = 404
    /\ (NoSelector(q) \/ Named(q) = {}) =>
          \A i \in DOMAIN resp.queries : resp.queries[i] \notin ObsQueries

\* C24, as stated: GET /observations answers 400 when neither station_id
\* nor the (source, source_station_id) pair is given and 404 when the given
\* one names no stored station, and executes no observation query in
\* either case.
C24_SelectorErrors ==
    \A s \in Sessions :
        (Answered(s) /\ Serves(s, "GET", "/observations"))
            => SelectorAnswer(run[s].response, run[s].request)

\* the stored observations of the station whose day lies in
\* [start_date, end_date]
InRange(st, q) ==
    {o \in db_obs : /\ o.station_id = st.id
                    /\ DateLE(q.start_date, ts_utc_date(o.ts))
                    /\ DateLE(ts_utc_date(o.ts), q.end_date)}

\* 200 with the page [offset, offset + limit) of the observations in range
\* in day order, and their number as total
RangeAnswer(resp, q, st) ==
    LET match == InRange(st, q)
        n == Cardinality(match)
        len == IF n <= q.offset THEN 0 ELSE Min(q.limit, n - q.offset)
    IN  /\ resp.status = 200
        /\ resp.body.total = n
        /\ Len(resp.body.items) = len
        /\ \A i \in 1..len :
              LET it == resp.body.items[i]
              IN  /\ \E o \in match : /\ ts_utc_date(o.ts) = it.date
                                      /\ o.tmin = it.tmin /\ o.tmax = it.tmax
                                      /\ o.precip = it.precip
                  /\ Cardinality({o \in match : DateLT(ts_utc_date(o.ts), it.date)})
                        = q.offset + i - 1

\* C25, as stated: for a stored station GET /observations answers 200 with
\* the observations whose day lies in [start_date, end_date], in ascending
\* day order, cut to the page [offset, offset + limit), and total is the
\* number of all observations in range whatever limit and offset are.
C25_ObservationsOfRange ==
    \A s \in Sessions :
        (Answered(s) /\ Serves(s, "GET", "/observations") /\ ~NoSelector(run[s].request))
            => \A st \in Named(run[s].request) :
                  RangeAnswer(run[s].response, run[s].request, st)

\* the query filters by source
Filters(q) == q.source # None /\ q.source.some # ""

\* the stored stations the query asks for
Listed(q) == IF Filters(q) THEN {st \in db_stations : st.source = q.source.some}
             ELSE db_stations

\* 200 with stations of Listed(q) in ascending id order, and their number
\* as total
StationsAnswer(resp, q) ==
    /\ resp.status = 200
    /\ resp.body.total = Cardinality(Listed(q))
    /\ \A i \in DOMAIN resp.body.items :
          /\ \E st \in Listed(q) : StationOut(st) = resp.body.items[i]
          /\ \A j \in DOMAIN resp.body.items :
                i < j => resp.body.items[i].id < resp.body.items[j].id

\* C26, as stated: GET /stations answers 200 with the stored stations in
\* ascending id order; with a source filter only the stations of that
\* source, total being their number, and without one total is the number
\* of all stored stations.
C26_StationsListed ==
    \A s \in Sessions :
        (Answered(s) /\ Serves(s, "GET", "/stations"))
            => StationsAnswer(run[s].response, run[s].request)

\* The handlers the application does not route, applied to the request:
\* list_observations answers the selector errors of C24 unless station_id
\* is 0,
HandlerSelectorErrors ==
    \A s \in Sessions :
        (Serves(s, "GET", "/observations") /\ run[s].request.station_id # Some(0))
            => SelectorAnswer(HandlerAnswer(s), run[s].request)

\* it answers the range of C25 when no observation is in the page and
\* fails on the first one otherwise,
HandlerRangeOrFailure ==
    \A s \in Sessions :
        (Serves(s, "GET", "/observations") /\ ~NoSelector(run[s].request))
            => \A st \in Named(run[s].request) :
                  \/ RangeAnswer(HandlerAnswer(s), run[s].request, st)
                  \/ /\ HandlerAnswer(s) = InternalServerError(HandlerAnswer(s).queries)
                     /\ InRange(st, run[s].request) # {}

\* and list_stations answers the listing of C26.
HandlerListsStations ==
    \A s \in Sessions :
        Serves(s, "GET", "/stations") => StationsAnswer(HandlerAnswer(s), run[s].request)

(***************************************************************************)
(* The order of fetches and upserts within a run (Spec)                    *)
(***************************************************************************)
\* the rows Provider A holds for the chunk the run has in hand
ProviderRows(r) ==
    {RowsInRange(x.data, r.chunk.chunk_start, r.chunk.chunk_end) :
        x \in {y \in world.aemet_data : y.sid = r.sid}}

\* the run has the rows of a fetched chunk in hand
RowsInHand(s) == InSync(s) /\ run[s].pc \in {"aemet_row", "aemet_upsert"}

\* C27: the retries go round the remote fetch only.  While
\* fetch_with_backoff runs (calls, sleeps, retries), no repository call is
\* in progress; and whatever number of calls the fetch of a chunk took, the
\* rows in hand are the provider's rows of the chunk, once each, and
\* upsert_observation has been called once for each row with a day that
\* the loop has passed (once more while the call for the next row is in
\* progress).
C27_RetryWrapsOnlyTheFetch ==
    \A s \in Sessions :
        /\ bo[s].pc # "idle" => call[s] = NoCall /\ run[s].pc = "aemet_fetch"
        /\ RowsInHand(s) =>
              LET r == run[s]
              IN  /\ r.unit.calls \in 1..DefaultMaxRetries
                  /\ r.rows \in ProviderRows(r)
                  /\ r.unit.upserts = Dated(SubSeq(r.rows, 1, r.ridx))
                                      + (IF r.pc = "aemet_upsert" THEN 1 ELSE 0)

\* a chunk of two rows fetched at the third call, both rows upserted
C27_Witness ==
    \E s \in SyncSessions :
        /\ RowsInHand(s)
        /\ run[s].unit.calls = DefaultMaxRetries
        /\ Len(run[s].rows) = 2 /\ run[s].ridx = 2
        /\ run[s].unit.upserts = 2
        /\ run[s].observations_upserted.aemet = 2

\* the step issues an observation fetch for the station in turn
IssuesFetch(s) == InSync(s) /\ run'[s].pc # "off" /\ run'[s].fetches = run[s].fetches + 1

\* the step calls upsert_observation
EntersUpsert(s) ==
    InSync(s) /\ run'[s].pc # "off" /\ run'[s].unit.upserts = run[s].unit.upserts + 1

\* the payloads Provider B holds for the station and day in turn
ProviderPayloads(r) ==
    {PayloadOn(x.data, r.d) : x \in {y \in world.meteocat_data : y.code = r.sid}}

\* C28: within a run a unit's observations are upserted before the next
\* fetch.  When a fetch is issued for a station, upsert_observation has
\* been called, and has returned, for every row with a day of the unit
\* fetched before it in the station's turn; and every call of
\* upsert_observation is for the station in turn and for a row of the unit
\* fetched last (the row the loop is at, the payload of the day): no call
\* is kept for the end of the station, of the provider or of the run.
C28_UpsertedBeforeNextFetch ==
    [][\A s \in SyncSessions :
          /\ IssuesFetch(s) =>
                /\ run[s].unit.upserts = run[s].unit.rows
                /\ call[s] = NoCall
          /\ EntersUpsert(s) =>
                /\ call'[s].station_id = run[s].st.id
                /\ run[s].st.source_station_id = run[s].sid
                /\ \/ /\ run[s].pc = "aemet_row"
                      /\ run[s].rows \in ProviderRows(run[s])
                      /\ call'[s].m.raw = run[s].rows[run[s].ridx + 1]
                   \/ /\ run[s].pc = "meteocat_fetched"
                      /\ call'[s].ts = ts_for_day(run[s].d)
                      /\ call'[s].m.raw \in ProviderPayloads(run[s])]_vars

\* the second chunk of a station is being fetched, the rows of the first
\* have been upserted
C28_Witness ==
    \E s \in SyncSessions :
        /\ run[s].pc = "aemet_fetch" /\ run[s].fetches = 2
        /\ run[s].unit.rows >= 1 /\ run[s].unit.upserts = run[s].unit.rows
        /\ run[s].observations_upserted.aemet >= 1

\* the second day of a station has been fetched, the first is stored
C28_WitnessDay ==
    \E s \in SyncSessions :
        /\ run[s].pc = "meteocat_fetched" /\ run[s].fetches = 2
        /\ run[s].observations_upserted.meteocat = 1
        /\ \E o \in db_obs : o.station_id = run[s].st.id /\ o.ts = ts_for_day(PrevDay(run[s].d))


(***************************************************************************)
(* The days a run asks the providers for (Spec)                            *)
(***************************************************************************)

\* the days from a to b
DaysWithin(a, b, d) == DateLE(a, d) /\ DateLE(d, b)

\* the range planned for the station in turn: from the day after its latest
\* stored observation, or BACKFILL_START, to the provider's end day
PlannedRange(r, end_d) ==
    /\ r.planned
    /\ r.start_d = compute_start_date(r.latest_ts)
    /\ r.end_d = end_d
    /\ DateLE(r.start_d, r.end_d)

C29_WitnessDay ==
    \E s \in SyncSessions :
        /\ run[s].pc = "meteocat_fetched"
        /\ run[s].d = PrevDay(today) /\ run[s].d = NextDay(run[s].start_d)


(***************************************************************************)
(* The entries of the station lists (Spec)                                 *)
(***************************************************************************)

\* the run takes the next entry of the provider's station list
TakesEntry(s) ==
    /\ run[s].pc \in {"aemet_station", "meteocat_station"}
    /\ run[s].idx < Len(run[s].stations)
    /\ run'[s] # run[s]

\* the native id of the entry in turn
EntryId(r) ==
    IF r.pc \in {"aemet_station", "aemet_create"}
    THEN aemet_sid(r.stations[r.idx + 1])
    ELSE meteocat_code(r.stations[r.idx + 1])

\* the step plans the range of the station in turn
PlansRange(s) == InSync(s) /\ ~run[s].planned /\ run'[s].pc # "off" /\ run'[s].planned

\* C30: a station-list entry without a native id is skipped, one with a
\* native id is upserted before its range is planned.  Taking an entry
\* whose id is missing or empty changes nothing but the position in the
\* list: no repository call, no station, no fetch, the counters as they
\* were.  Taking an entry with an id calls create_if_not_exists with that
\* id; the range of a station is planned only by the step at which that
\* call has returned the station of the entry's id, which the session sees
\* stored and which is counted in stations_upserted; a fetch is issued only
\* for a planned station; and no stored station lacks a native id.
C30_EntriesWithoutIdSkipped ==
    [][\A s \in SyncSessions :
          /\ TakesEntry(s) /\ Falsy(EntryId(run[s])) =>
                /\ run'[s].pc = run[s].pc /\ run'[s].idx = run[s].idx + 1
                /\ run'[s].stations_upserted = run[s].stations_upserted
                /\ run'[s].counted_stations = run[s].counted_stations
                /\ run'[s].fetches = 0 /\ ~run'[s].planned
                /\ call'[s] = NoCall /\ bo' = bo
                /\ db_stations' = db_stations /\ seq' = seq /\ tx' = tx
          /\ TakesEntry(s) /\ ~Falsy(EntryId(run[s])) =>
                /\ call'[s].op = "create_if_not_exists"
                /\ call'[s].source_station_id = EntryId(run[s])
                /\ ~run'[s].planned /\ run'[s].idx = run[s].idx
          /\ PlansRange(s) =>
                /\ run[s].pc \in {"aemet_create", "meteocat_create"}
                /\ call[s].op = "create_if_not_exists" /\ call[s].stage = "done"
                /\ ret[s].kind = "ok"
                /\ ~Falsy(run[s].sid) /\ run[s].sid = EntryId(run[s])
                /\ ret[s].value.source_station_id = run[s].sid
                /\ ret[s].value \in ViewStations(s)
                /\ run'[s].st = ret[s].value
                /\ Len(run'[s].counted_stations) = Len(run[s].counted_stations) + 1
          /\ IssuesFetch(s) => run[s].planned /\ run[s].st.source_station_id = run[s].sid
          /\ \A st \in db_stations' : ~Falsy(st.source_station_id)]_vars

\* the list of Provider A has been gone through: its entry without an id
\* was passed, its two stations are stored and counted, and nothing else
C30_Witness ==
    \E s \in SyncSessions :
        /\ run[s].pc = "meteocat_client"
        /\ run[s].stations = <<MetaANoId, MetaA1, MetaA2>>
        /\ run[s].idx = 3
        /\ run[s].stations_upserted.aemet = 2
        /\ {st.source_station_id : st \in db_stations} = {SidA1, SidA2}

\* the same for an entry of Provider B
C30_WitnessB ==
    \E s \in SyncSessions :
        /\ run[s].pc = "meteocat_station"
        /\ run[s].idx >= 1 /\ run[s].stations[run[s].idx] = MetaMNoId
        /\ run[s].stations_upserted.meteocat = run[s].idx - 1


(***************************************************************************)
(* SpecCreate: two sessions call create_if_not_exists and                  *)
(* upsert_observation in any order, as in SpecRepo, and each caller keeps  *)
(* what its call returned until it goes on.                                *)
(***************************************************************************)
RunCaller == [pc |-> "caller"]

CallerIdle(s) == run[s] = RunCaller /\ call[s] = NoCall

\* `await repo.create_if_not_exists(source, source_station_id, name)`
CallerCreate(s) ==
    /\ CallerIdle(s)
    /\ seq.stations <= MaxStationSeq
    /\ \E src \in RepoSources, sid \in RepoStationIds :
          RepoSelectStation(s, CreateCall(src, sid, RepoName(s)))
    /\ UNCHANGED <<chunkVars, bo, dbVars, run, envVars>>

\* `await repo.upsert_observation(...)`, which commits
CallerUpsert(s) ==
    /\ CallerIdle(s)
    /\ seq.obs <= MaxObsSeq
    /\ \E k \in RepoObsKeys :
          RepoSelectObs(s, UpsertCall(k[1], ts_for_day(k[2]), RepoMeasures(s)))
    /\ UNCHANGED <<chunkVars, bo, dbVars, run, envVars>>

\* the caller goes on with what the call returned or raised
CallerReturn(s) ==
    /\ run[s] = RunCaller
    /\ call[s] # NoCall /\ call[s].stage = "done"
    /\ call' = [call EXCEPT ![s] = NoCall]
    /\ ret' = [ret EXCEPT ![s] = NoRet]
    /\ UNCHANGED <<chunkVars, bo, dbVars, tx, run, envVars>>

CallerClose(s) ==
    /\ CallerIdle(s)
    /\ tx[s] # TxClean
    /\ tx' = [tx EXCEPT ![s] = session_closed(tx[s])]
    /\ UNCHANGED <<chunkVars, bo, db_stations, db_obs, seq, repoVars, run, envVars>>

CreateInit ==
    /\ ChunkOff /\ BackoffOff /\ EnvInit
    /\ db_stations = {}
    /\ db_obs = {}
    /\ seq = [stations |-> 1, obs |-> 1]
    /\ tx = [s \in Sessions |-> TxClean]
    /\ call = [s \in Sessions |-> NoCall]
    /\ ret = [s \in Sessions |-> NoRet]
    /\ run = [s \in Sessions |-> RunCaller]

CreateNext ==
    \E s \in Sessions :
        \/ CallerCreate(s)
        \/ CallerUpsert(s)
        \/ CallerReturn(s)
        \/ CallerClose(s)
        \/ RepoStep(s)

SpecCreate == CreateInit /\ [][CreateNext]_vars

(***************************************************************************)
(* create_if_not_exists on a stored station (SpecCreate)                   *)
(***************************************************************************)

\* the step enters create_if_not_exists, in a session whose transaction is
\* usable, for a key the session sees stored
CreateOfStored(s) ==
    /\ call[s] = NoCall
    /\ call'[s].op = "create_if_not_exists"
    /\ ~tx[s].failed
    /\ StationsBySourceId(s, call'[s].source, call'[s].source_station_id) # {}

\* C31: create_if_not_exists for a stored (source, source_station_id)
\* returns the stored station and changes nothing.  In a session whose
\* transaction is usable, the call returns at once the one row the session
\* sees for the key, with the id and the name it was stored with whatever
\* the name of the call, and the tables, the sequences and the session's
\* transaction are as before; and no committed station row is ever changed
\* or removed, so an id, once handed out, stays with its key and its name.
C31_CreateOfStoredReturnsIt ==
    [][/\ \A s \in Sessions :
             CreateOfStored(s) =>
                /\ call'[s].stage = "done"
                /\ ret'[s].kind = "ok"
                /\ StationsBySourceId(s, call'[s].source, call'[s].source_station_id)
                      = {ret'[s].value}
                /\ db_stations' = db_stations /\ db_obs' = db_obs /\ seq' = seq
                /\ tx' = tx
       /\ db_stations \subseteq db_stations'
       /\ \A s \in Sessions :
             tx[s].new_stations \subseteq ViewStations(s)' \/ tx'[s].new_stations = {}]_vars

\* a station another session committed under one name has been returned,
\* under that name, to a call that passed another name
C31_Witness ==
    \E s \in Sessions :
        /\ call[s].op = "create_if_not_exists" /\ call[s].stage = "done"
        /\ ret[s].kind = "ok"
        /\ ret[s].value \in db_stations
        /\ call[s].found = ret[s].value
        /\ tx[s].new_stations = {}
        /\ ret[s].value.name # call[s].name
        /\ ret[s].value.name = Str(<<"n", "1">>)


(***************************************************************************)
(* The size of the failures map (Spec)                                     *)
(***************************************************************************)

\* the keys `failures` can hold and what is under each
FailuresShape(f) ==
    /\ DOMAIN f = {"aemet", "aemet_station_errors", "meteocat", "meteocat_station_errors"}
    /\ f.aemet = None \/ f.aemet \in {Msg(e) : e \in {f.aemet.text}}
    /\ f.meteocat = None \/ f.meteocat \in {Msg(e) : e \in {f.meteocat.text}}
    /\ f.aemet_station_errors \in Nat
    /\ f.meteocat_station_errors \in Nat

\* the step adds to a count of station errors
CountsStationError(s) ==
    /\ InSync(s) /\ run'[s].pc # "off"
    /\ \/ run'[s].failures.aemet_station_errors # run[s].failures.aemet_station_errors
       \/ run'[s].failures.meteocat_station_errors # run[s].failures.meteocat_station_errors

\* C32: the failures map stays bounded.  Throughout a run and in its
\* response, failures holds at most one text per provider and one count
\* per provider, and the count of a provider is at most its
\* stations_upserted: a step that adds to a count adds one to one count,
\* for a station that was upserted and planned, and ends that station's
\* turn.
C32_FailuresStayBounded ==
    [][\A s \in SyncSessions :
          /\ InSync(s) =>
                /\ FailuresShape(run[s].failures)
                /\ run[s].failures.aemet_station_errors <= run[s].stations_upserted.aemet
                /\ run[s].failures.meteocat_station_errors <= run[s].stations_upserted.meteocat
          /\ CountsStationError(s) =>
                /\ run[s].planned
                /\ run'[s].idx = run[s].idx + 1
                /\ \/ /\ run'[s].pc = "aemet_station"
                      /\ run'[s].failures = [run[s].failures EXCEPT !.aemet_station_errors = @ + 1]
                   \/ /\ run'[s].pc = "meteocat_station"
                      /\ run'[s].failures = [run[s].failures EXCEPT !.meteocat_station_errors = @ + 1]]_vars

\* a response in which every upserted station of Provider A failed: two
\* stations, two errors, no text
C32_Witness ==
    \E s \in SyncSessions :
        /\ run[s].pc = "done"
        /\ run[s].stations_upserted.aemet = 2
        /\ run[s].failures.aemet_station_errors = 2
        /\ run[s].failures.aemet = None

\* a station whose first chunk was fetched and stored and whose second
\* chunk failed: one error
C32_WitnessTwoChunks ==
    \E s \in SyncSessions :
        /\ run[s].pc = "aemet_station" /\ run[s].idx = 1 /\ run[s].fetches = 2
        /\ run[s].stations_upserted.aemet = 1
        /\ run[s].failures.aemet_station_errors = 1


(***************************************************************************)
(* SpecPayload: parse_daily_payload is called with a payload: one of the   *)
(* payloads above, or an object of up to two variables, each of one of the *)
(* four codes or another, without readings or with up to MaxReadings.      *)
(***************************************************************************)
MaxReadings == 2

Txt2d5 == Str(<<"2", ".", "5">>)

\* what a reading carries under "valor": nothing, a number, a text
PayloadValors == {None, Float(1, 1), Float(4, 1), Txt2d5}

RECURSIVE LecturesUpTo(_)
LecturesUpTo(n) ==
    IF n = 0 THEN {<< >>}
    ELSE LET shorter == LecturesUpTo(n - 1)
         IN  shorter \cup {Append(l, Lec(v)) : l \in shorter, v \in PayloadValors}

OtherCode == 99

PayloadVars ==
    {Var(c, ls) : c \in MeteocatCodes \cup {OtherCode},
                  ls \in {None} \cup {List(l) : l \in LecturesUpTo(MaxReadings)}}

PayloadInputs ==
    {None, List(<< >>), PayloadFull, PayloadPartial, PayloadUnreadable, PayloadOpaque}
    \cup {Obj(List(<<a>>), None) : a \in PayloadVars}
    \cup {Obj(List(<<a, b>>), None) : a \in PayloadVars, b \in PayloadVars}

\* a caller about to call parse_daily_payload(raw)
RunPayload(raw) == [pc |-> "parse_daily_payload", raw |-> raw, out |-> NoRet]

PayloadInit ==
    /\ ChunkOff /\ BackoffOff /\ EnvInit
    /\ db_stations = {} /\ db_obs = {}
    /\ seq = [stations |-> 1, obs |-> 1]
    /\ tx = [s \in Sessions |-> TxClean]
    /\ call = [s \in Sessions |-> NoCall]
    /\ ret = [s \in Sessions |-> NoRet]
    /\ \E raw \in PayloadInputs :
          run = [s \in Sessions |-> IF s = 1 THEN RunPayload(raw) ELSE RunOff]

\* the call returns, or an exception leaves it
ParseDailyPayload(s) ==
    /\ run[s].pc = "parse_daily_payload"
    /\ SetRun(s, [run[s] EXCEPT !.pc = "payload_parsed",
                                !.out = parse_daily_payload(run[s].raw)])
    /\ UNCHANGED <<chunkVars, bo, dbVars, repoVars, envVars>>

PayloadNext == ParseDailyPayload(1)

SpecPayload == PayloadInit /\ [][PayloadNext]_vars

(***************************************************************************)
(* The aggregates of a payload (SpecPayload)                               *)
(***************************************************************************)

\* the variables of a payload, none when it has none
VariablesIn(raw) ==
    IF raw = None THEN << >>
    ELSE IF IsList(raw)
         THEN IF raw.list = << >> \/ ~IsObj(raw.list[1]) \/ raw.list[1].variables = None
              THEN << >> ELSE raw.list[1].variables.list
    ELSE IF raw.variables = None THEN << >> ELSE raw.variables.list

\* where the payload has a reading that is not null under code c:
\* <<variable, reading>>
ReadingsAt(vs, c) ==
    {p \in (DOMAIN vs) \X (1..(MaxReadings + 1)) :
        /\ vs[p[1]].codi = c
        /\ vs[p[1]].lectures # None
        /\ p[2] \in DOMAIN vs[p[1]].lectures.list
        /\ vs[p[1]].lectures.list[p[2]].valor # None}

ReadingAt(vs, p) == float_of(vs[p[1]].lectures.list[p[2]].valor)

RECURSIVE TotalAt(_, _)
TotalAt(vs, P) ==
    IF P = {} THEN Float(0, 1)
    ELSE LET p == CHOOSE x \in P : TRUE
         IN  FAdd(ReadingAt(vs, p), TotalAt(vs, P \ {p}))

\* m is the mean of the readings at P
IsMeanAt(m, vs, P) ==
    /\ IsFloat(m)
    /\ m.num * TotalAt(vs, P).den * Cardinality(P) = TotalAt(vs, P).num * m.den

\* m is the greatest (least) of the readings at P
IsMaxAt(m, vs, P) ==
    /\ \E p \in P : ReadingAt(vs, p) = m
    /\ \A p \in P : ~FLess(m, ReadingAt(vs, p))

IsMinAt(m, vs, P) ==
    /\ \E p \in P : ReadingAt(vs, p) = m
    /\ \A p \in P : ~FLess(ReadingAt(vs, p), m)

PayloadParsed(s) == run[s].pc = "payload_parsed"

\* C33: the aggregates parse_daily_payload gives.  When every reading that
\* is not null under the four codes is a number or the text of one, the
\* call returns: tavg is the mean of the readings under 32, precip the mean
\* of those under 35, tmax the greatest of those under 40, tmin the least
\* of those under 42, over all the variables of the code; a code that is
\* absent, or whose readings are all missing or null, gives None for its
\* field.  The call raises only when one of those readings is unreadable.
C33_AggregatesOfPayload ==
    \A s \in Sessions :
        PayloadParsed(s) =>
            LET vs == VariablesIn(run[s].raw)
                out == run[s].out
                At(c) == ReadingsAt(vs, c)
                readable == \A c \in MeteocatCodes : \A p \in At(c) :
                               IsFloat(ReadingAt(vs, p))
                Given(v, c, Is(_, _, _)) ==
                    IF At(c) = {} THEN v = None ELSE Is(v, vs, At(c))
            IN  IF readable
                THEN /\ out.kind = "ok"
                     /\ Given(out.value.tavg, 32, IsMeanAt)
                     /\ Given(out.value.precip, 35, IsMeanAt)
                     /\ Given(out.value.tmax, 40, IsMaxAt)
                     /\ Given(out.value.tmin, 42, IsMinAt)
                ELSE out = Raise("ValueError")

\* precipitation read 1 and 4 gives 5/2, code 32 has a variable without
\* readings: no tavg, no tmax, no tmin
C33_Witness ==
    /\ PayloadParsed(1)
    /\ run[1].raw = Obj(List(<<Var(35, List(<<Lec(Float(1, 1)), Lec(Float(4, 1))>>)),
                                Var(32, None)>>), None)
    /\ run[1].out = Ok([tmin |-> None, tmax |-> None, precip |-> Float(5, 2), tavg |-> None])

\* two variables of code 40: the greatest of the readings of both
C33_WitnessMax ==
    /\ PayloadParsed(1)
    /\ run[1].raw = Obj(List(<<Var(40, List(<<Lec(Float(1, 1)), Lec(None)>>)),
                                Var(40, List(<<Lec(Txt2d5)>>))>>), None)
    /\ run[1].out = Ok([tmin |-> None, tmax |-> Float(5, 2), precip |-> None, tavg |-> None])


(***************************************************************************)
(* What fetch_with_backoff returns (SpecBackoff)                           *)
(***************************************************************************)

\* C34, as stated: for every max_retries, fetch_with_backoff returns only
\* what a successful call of fn produced: when it has returned, fn was
\* called, its last call succeeded, and the value returned is that call's.
C34_ReturnsOnlyWhatFnProduced ==
    \A s \in Sessions :
        bo[s].pc = "returned" =>
            /\ bo[s].log # << >>
            /\ bo[s].log[Len(bo[s].log)].kind = "ok"
            /\ bo[s].result = bo[s].log[Len(bo[s].log)]

\* for max_retries >= 1 the statement holds
BackoffReturnsFnValueFromOneAttempt ==
    \A s \in Sessions :
        (bo[s].pc = "returned" /\ bo[s].max_retries >= 1) =>
            /\ bo[s].log # << >>
            /\ bo[s].result = bo[s].log[Len(bo[s].log)]
            /\ bo[s].result.kind = "ok"


(***************************************************************************)
(* SpecOverlapFair: the two requests of SpecOverlap, with every call of a  *)
(* provider and of the store returning or raising in the end, and the      *)
(* event loop resuming every coroutine that can go on: weak fairness of    *)
(* the steps of each run, []<>(the run cannot go on) \/ []<>(the run takes *)
(* a step), with what "can go on" means written out.                       *)
(***************************************************************************)
\* the statement of s waits for another session's transaction, which does
\* not wait for s
Waits(s) ==
    /\ call[s].stage \in {"flush", "insert", "update"}
    /\ BlockedBy(s) # {}
    /\ \A t \in BlockedBy(s) : s \notin BlockedBy(t)

\* the run that s serves can go on: it is at a statement of sync, or in
\* fetch_with_backoff, or in a repository call whose statement the store
\* can answer
Ready(s) ==
    \/ run[s].pc \in {"aemet_list", "aemet_station", "aemet_chunk", "aemet_row",
                      "meteocat_client", "meteocat_list", "meteocat_station",
                      "meteocat_day", "meteocat_fetched", "respond", "done"}
    \/ run[s].pc = "aemet_fetch" /\ bo[s].pc \in {"call", "sleep", "returned", "raised"}
    \/ /\ run[s].pc \in {"aemet_create", "meteocat_create", "aemet_upsert", "meteocat_upsert"}
       /\ call[s] # NoCall
       /\ ~Waits(s)
       /\ call[s].stage = "flush" => seq.stations <= StationSeqCap(s)
       /\ call[s].stage = "insert" => seq.obs <= ObsSeqCap(s)

\* the run that s serves takes a step
Moves(s) ==
    <<run[s], call[s], ret[s], bo[s], tx[s]>>' # <<run[s], call[s], ret[s], bo[s], tx[s]>>

ResumedWhenReady(s) == []<>(~Ready(s)) \/ []<><<InSync(s) /\ Moves(s)>>_vars

SpecOverlapFair ==
    /\ OverlapInit
    /\ [][OverlapNext]_vars
    /\ \A s \in Sessions : ResumedWhenReady(s)

\* a run takes steps only when it can go on
MovesOnlyWhenReady ==
    [][\A s \in Sessions : (InSync(s) /\ Moves(s)) => Ready(s)]_vars

(***************************************************************************)
(* Exceptions inside sync (SpecOverlapFair)                                *)
(***************************************************************************)

\* the step resumes sync with an exception: the repository call or
\* fetch_with_backoff it awaited has raised
ResumesWithException(s) ==
    /\ InSync(s) /\ run'[s] # run[s]
    /\ \/ call[s] # NoCall /\ call[s].stage = "done" /\ ret[s].kind = "raise"
       \/ run[s].pc = "aemet_fetch" /\ bo[s].pc = "raised"

\* where sync goes on after one of its `except` clauses
AfterExcept == {"aemet_station", "meteocat_client", "meteocat_station", "respond"}

\* C35: sync lets no exception of a provider or of the store out and
\* always returns its response.  A step that resumes sync with an exception
\* goes on after an `except` clause, with a text or one more station error
\* in failures and the counters as they were; the response carries the
\* counters and failures accumulated; and every run that has begun reaches
\* its response, whatever the providers and the store raised.
C35_SyncAlwaysResponds ==
    /\ [][\A s \in Sessions :
            /\ ResumesWithException(s) =>
                  /\ run'[s].pc \in AfterExcept
                  /\ run'[s].failures # run[s].failures
                  /\ run'[s].stations_upserted = run[s].stations_upserted
                  /\ run'[s].observations_upserted = run[s].observations_upserted
            /\ (run[s].pc = "respond" /\ run'[s].pc # "respond") =>
                  /\ run'[s].pc = "done"
                  /\ run'[s].response_date = today
                  /\ run'[s].failures = run[s].failures
                  /\ run'[s].stations_upserted = run[s].stations_upserted
                  /\ run'[s].observations_upserted = run[s].observations_upserted]_vars
    /\ \A s \in Sessions : InSync(s) ~> (run[s].pc = "done")

\* a response after the store raised in this run and a provider in it, too
C35_Witness ==
    \E s \in Sessions :
        /\ run[s].pc = "done"
        /\ run[s].failures.meteocat = Msg(IntegrityError)

\* a response after a fetch raised: one station error, no text
C35_WitnessFetch ==
    \E s \in Sessions :
        /\ run[s].pc = "done"
        /\ run[s].failures.aemet_station_errors >= 1
        /\ run[s].failures.aemet = None


(***************************************************************************)
(* SpecFair: the runs of Spec, with every call of a provider and of the    *)
(* store returning or raising in the end and the event loop resuming the   *)
(* coroutine that can go on (weak fairness of the steps of a run).  When   *)
(* requests come and when midnight passes is left open.                    *)
(***************************************************************************)
SpecFair ==
    /\ Init
    /\ [][Next]_vars
    /\ \A s \in SyncSessions : ResumedWhenReady(s)

(***************************************************************************)
(* Termination of a run (SpecFair)                                         *)
(***************************************************************************)

\* the step takes the next chunk of the station in turn
TakesChunk(s) == run[s].pc = "aemet_chunk" /\ run'[s].pc = "aemet_fetch"

\* the step goes on to the station's next day after a stored day
TakesNextDay(s) == run[s].pc = "meteocat_upsert" /\ run'[s].pc = "meteocat_day"

\* C36: every run terminates, given that every provider call returns or
\* raises.  Each chunk taken has at least one day and ends within the
\* range, and the cursor moves to the day after it, past where it was; the
\* day of the Provider-B loop moves one day on after each stored day and
\* the loop is left past end_d; fetch_with_backoff calls the provider at
\* most max_retries = 3 times for a chunk; and every run that has begun
\* reaches its response.
C36_EveryRunTerminates ==
    /\ [][\A s \in SyncSessions :
            /\ TakesChunk(s) =>
                  /\ DateLE(run'[s].chunk.chunk_start, run'[s].chunk.chunk_end)
                  /\ run'[s].chunk.chunk_start = run[s].cur
                  /\ DateLE(run'[s].chunk.chunk_end, run[s].end_d)
                  /\ run'[s].cur = NextDay(run'[s].chunk.chunk_end)
                  /\ DateLT(run[s].cur, run'[s].cur)
            /\ TakesNextDay(s) =>
                  /\ run'[s].d = NextDay(run[s].d)
                  /\ DateLE(run[s].d, run[s].end_d)
            /\ (run[s].pc = "meteocat_day" /\ run'[s].pc = "meteocat_station") =>
                  \/ DateLT(run[s].end_d, run[s].d)
                  \/ run'[s].failures # run[s].failures
            /\ bo[s].pc # "idle" =>
                  /\ bo[s].max_retries = DefaultMaxRetries
                  /\ Len(bo[s].log) <= bo[s].max_retries]_vars
    /\ \A s \in SyncSessions : InSync(s) ~> (run[s].pc = "done")

\* a run has ended after two chunks of one station and three calls for one
\* of them
C36_Witness ==
    \E s \in SyncSessions :
        /\ run[s].pc = "done"
        /\ run[s].observations_upserted.aemet >= 1
        /\ today = DayJul2
        /\ run[s].stations_upserted.aemet >= 1

\* the day loop of a station was left past its end day after two days
C36_WitnessDays ==
    \E s \in SyncSessions :
        /\ run[s].pc = "meteocat_station"
        /\ run[s].planned /\ run[s].fetches = 2
        /\ run[s].d = NextDay(run[s].end_d)
        /\ run[s].observations_upserted.meteocat = 2


(***************************************************************************)
(* The stored days of a Provider-B station (Spec)                          *)
(***************************************************************************)

\* every observation row of the store, committed or flushed by a session
AllObs == db_obs \cup UNION {tx[s].new_obs : s \in Sessions}

AllStations == db_stations \cup UNION {tx[s].new_stations : s \in Sessions}

\* the days a clock of the model can reach
ClockDays == {PlusDays(BACKFILL_START, n) : n \in 0..MaxDaysAfterEpoch}

\* the days for which the station has a row
DaysWithRow(st, obs) == {d \in ClockDays : \E o \in obs : o.station_id = st.id /\ o.ts = ts_for_day(d)}

\* C37: the stored days of a Provider-B station are the days from
\* 2024-01-01 to some day, without a gap, after any runs and failures: a
\* day has a row only when every day from BACKFILL_START to it has one;
\* this holds of the committed rows and of all rows.
C37_StoredDaysHaveNoGap ==
    \A st \in AllStations :
        st.source = "meteocat" =>
            /\ \A o \in AllObs : o.station_id = st.id =>
                  \E d \in ClockDays : o.ts = ts_for_day(d)
            /\ \A obs \in {db_obs, AllObs} :
                  \A d \in DaysWithRow(st, obs) :
                      \A e \in ClockDays : DateLT(e, d) => e \in DaysWithRow(st, obs)

\* a station whose second day failed in one run and was stored by the next,
\* which began at that day
C37_Witness ==
    \E s \in SyncSessions :
        /\ last.runs = 2
        /\ run[s].pc = "meteocat_station" /\ run[s].planned
        /\ run[s].start_d = Day2 /\ run[s].fetches = 1
        /\ run[s].observations_upserted.meteocat = 1
        /\ \E st \in db_stations :
              /\ st.source = "meteocat"
              /\ DaysWithRow(st, db_obs) = {BACKFILL_START, Day2}


(***************************************************************************)
(* Runs after runs (Spec)                                                  *)
(***************************************************************************)

\* the turn of a Provider-B station with days to fetch is over
TurnOver(s) ==
    /\ run[s].pc = "meteocat_station" /\ run[s].planned
    /\ DateLE(run[s].start_d, run[s].end_d)

\* every fetch of the turn was answered
AllFetchesAnswered(s) == run[s].fetch_log = << >>

\* the latest day the session sees stored for the station in turn
LatestStoredDay(s) ==
    LET latest == get_latest_ts_by_station(s, run[s].st.id)
    IN  IF latest = None THEN None ELSE ts_utc_date(latest)

\* C38, as stated: runs converge.  When every fetch of a Provider-B
\* station's turn succeeded, the station's latest stored day after the
\* turn is the horizon (end_d); a station whose latest stored day is the
\* horizon has nothing planned and no fetch issued; and a turn begins at
\* the day after the latest stored day, the day at which the run before
\* failed, so no stored day is fetched again.
C38_RunsConverge ==
    \A s \in SyncSessions :
        /\ (TurnOver(s) /\ AllFetchesAnswered(s)) => LatestStoredDay(s) = run[s].end_d
        /\ (InSync(s) /\ run[s].planned /\ run[s].st.source = "meteocat") =>
              /\ run[s].start_d = compute_start_date(run[s].latest_ts)
              /\ (run[s].latest_ts # None /\ ts_utc_date(run[s].latest_ts) = run[s].end_d)
                    => run[s].fetches = 0
              /\ run[s].pc \in {"meteocat_day", "meteocat_fetched", "meteocat_upsert"}
                    => /\ DateLE(run[s].start_d, run[s].d)
                       /\ \A o \in db_obs : o.station_id = run[s].st.id =>
                             TsLE(o.ts, ts_for_day(run[s].d))

\* what holds: a turn that ended without a failure leaves the latest stored
\* day at the horizon
TurnWithoutFailureReachesHorizon ==
    \A s \in SyncSessions :
        (TurnOver(s) /\ run[s].failures = run[s].snap.failures)
            => LatestStoredDay(s) = run[s].end_d

\* what holds: the turn of a station begins at the day after its latest
\* stored day, and a station stored up to the horizon is left alone
TurnResumesAfterLatest ==
    \A s \in SyncSessions :
        (InSync(s) /\ run[s].planned /\ run[s].st.source = "meteocat") =>
            /\ run[s].start_d = compute_start_date(run[s].latest_ts)
            /\ (run[s].latest_ts # None /\ ts_utc_date(run[s].latest_ts) = run[s].end_d)
                  => run[s].fetches = 0
            /\ run[s].pc \in {"meteocat_day", "meteocat_fetched", "meteocat_upsert"}
                  => /\ DateLE(run[s].start_d, run[s].d)
                     /\ \A o \in db_obs : o.station_id = run[s].st.id =>
                           TsLE(o.ts, ts_for_day(run[s].d))


(***************************************************************************)
(* C39: the days Provider-A rows are stored under.                         *)
(***************************************************************************)
\* the session is inside upsert_observation for a row of the chunk
StoresChunkRow(s) == run[s].pc = "aemet_upsert" /\ call[s] # NoCall

\* the day the row in hand is stored under
StoredUnder(s) == ts_utc_date(call[s].ts)

InsideChunk(s, d) ==
    DateLE(run[s].chunk.chunk_start, d) /\ DateLE(d, run[s].chunk.chunk_end)

\* C39, as stated: every observation stored for a Provider-A station while
\* chunk [chunk_start, chunk_end] is processed has its day inside
\* [chunk_start, chunk_end], and so no row of a Provider-A station lies
\* after the horizon, yesterday.
C39_StoredDaysInsideChunk ==
    /\ \A s \in SyncSessions :
          StoresChunkRow(s) => InsideChunk(s, StoredUnder(s))
    /\ \A st \in AllStations : \A o \in AllObs :
          (st.source = "aemet" /\ o.station_id = st.id) =>
              DateLE(ts_utc_date(o.ts), available_end_date("aemet"))

\* what holds: a row is stored under the day its own fecha names, as
\* fromisoformat reads it
RowStoredUnderItsFecha ==
    \A s \in SyncSessions :
        StoresChunkRow(s) =>
            StoredUnder(s) = fromisoformat(run[s].rows[run[s].ridx + 1].fecha)

\* what holds: a row whose fecha names a day of the chunk is stored inside it
RowOfChunkDayStoredInside ==
    \A s \in SyncSessions :
        (StoresChunkRow(s) /\ \E d \in ClockDays :
             /\ InsideChunk(s, d)
             /\ run[s].rows[run[s].ridx + 1].fecha = IsoOf(d)) =>
            InsideChunk(s, StoredUnder(s))


(***************************************************************************)
(* C40: what observations_upserted counts.                                 *)
(***************************************************************************)
ProviderNames == {"aemet", "meteocat"}

\* the (station, instant) keys of the rows the run counted for the provider
CountedKeys(r, provider) ==
    LET mine == CountedObsOf(r, provider, Len(r.counted_obs))
    IN  {<<mine[k].station_id, mine[k].ts>> : k \in 1..Len(mine)}

\* C40, as stated: at the end of a run, observations_upserted of a
\* provider is the number of observation rows the run created or overwrote
\* for stations of that provider, no row being counted twice.
C40_CountsStoredRows ==
    \A s \in SyncSessions :
        run[s].pc = "done" =>
            \A p \in ProviderNames :
                run[s].observations_upserted[p] = Cardinality(CountedKeys(run[s], p))

\* upsert_observation has returned a row to sync
UpsertReturned(s) ==
    /\ run[s].pc \in {"aemet_upsert", "meteocat_upsert"}
    /\ call[s] # NoCall
    /\ call[s].stage = "done"
    /\ ret[s].kind = "ok"

UpsertProvider(s) == IF run[s].pc = "aemet_upsert" THEN "aemet" ELSE "meteocat"

\* sync takes a row without `fecha`
TakesDatelessRow(s) ==
    /\ run[s].pc = "aemet_row"
    /\ run[s].ridx < Len(run[s].rows)
    /\ Falsy(run[s].rows[run[s].ridx + 1].fecha)

StepOfRun(s) == InSync(s) /\ InSync(s)' /\ run'[s] # run[s]

\* C40, amended: observations_upserted of a provider is the number of
\* upsert_observation calls of the run that returned for a station of the
\* provider.  The counter moves by one at the step where such a call has
\* returned, the row returned having the station and instant asked for,
\* and at no other step; a row without date starts no call, stores
\* nothing and counts nothing; the number is never less than the number of
\* rows the run created or overwrote, and a day upserted twice is counted
\* twice.
C40_CountsReturnedUpserts ==
    /\ [](\A s \in SyncSessions : InSync(s) =>
            \A p \in ProviderNames :
                /\ run[s].observations_upserted[p]
                      = Len(CountedObsOf(run[s], p, Len(run[s].counted_obs)))
                /\ run[s].observations_upserted[p] >= Cardinality(CountedKeys(run[s], p)))
    /\ [][\A s \in SyncSessions : StepOfRun(s) =>
            /\ UpsertReturned(s) =>
                  /\ run'[s].observations_upserted =
                        [run[s].observations_upserted EXCEPT ![UpsertProvider(s)] = @ + 1]
                  /\ ret[s].value.station_id = call[s].station_id
                  /\ ret[s].value.ts = call[s].ts
                  /\ ret[s].value \in ViewObs(s)
            /\ ~UpsertReturned(s) =>
                  run'[s].observations_upserted = run[s].observations_upserted
            /\ TakesDatelessRow(s) =>
                  /\ call'[s] = NoCall
                  /\ AllObs' = AllObs
                  /\ run'[s].ridx = run[s].ridx + 1]_vars

\* a run has ended in which a day came twice and a row had no date: two
\* upserts are counted for the one row stored
C40_Witness ==
    \E s \in SyncSessions :
        /\ run[s].pc = "done"
        /\ run[s].observations_upserted.aemet = 2
        /\ Cardinality(CountedKeys(run[s], "aemet")) = 1

\* a row without date has been passed over after a counted upsert
C40_WitnessDateless ==
    \E s \in SyncSessions :
        /\ run[s].pc = "aemet_row"
        /\ run[s].ridx > 0
        /\ Falsy(run[s].rows[run[s].ridx].fecha)
        /\ run[s].observations_upserted.aemet > 0

====
